---------------------------- MODULE Spec2Model ----------------------------
(***************************************************************************)
(* A model of the al-lsp language server: the document store (WorldState), *)
(* the text-synchronisation handlers, the lock discipline of the document  *)
(* map under the cooperative executor, and the symbol table queries.       *)
(*                                                                         *)
(* The specifications share the variables below:                           *)
(*   Spec      the document lifecycle, each handler cut at its awaits,     *)
(*             with a client that honours the advertised FULL sync kind;   *)
(*   SpecEdit  handle_did_change on one document, with every content       *)
(*             change a client can put on the wire (ranged ones included); *)
(*   SpecConc  the handlers cut at their await points, with the shard      *)
(*             locks of the document map (FairConc adds the fairness);     *)
(*   SpecSym   the symbol table queries on bounded symbol tables;          *)
(*   SpecNav   navigation, references and rename over parsed documents;    *)
(*   SpecFmt   document formatting;                                        *)
(*   SpecScan  load_workspace_files over a directory tree;                 *)
(*   SpecBorrow the entry guards of the handlers that walk the map;        *)
(*   SpecType  extract_type_object_name on type texts;                     *)
(*   SpecRace  the workspace scan among suspended didOpen handlers.        *)
(***************************************************************************)
EXTENDS Integers, Sequences, FiniteSets, TLC

VARIABLES
    documents,        \* WorldState.documents: URI -> DocumentState (or NoDoc)
    workspace_roots,  \* WorldState.workspace_roots: sequence of root paths
    disk,             \* the file system: path -> absent / unreadable / a text
    phase,            \* server phase: "new", "running", "crashed"
    last,             \* the message handled by the last step (history)
    tasks,            \* the handler futures in flight
    locks,            \* the shards of the document map and who holds their locks
    thread,           \* what the thread that polls the handlers is doing
    table,            \* SpecSym: the DocumentSymbolTable under query
    query             \* SpecSym: the last query and its result

vars == <<documents, workspace_roots, disk, phase, last, tasks, locks, thread,
          table, query>>

storeVars == <<documents, workspace_roots, disk, phase, last>>
concVars  == <<tasks, locks, thread>>
symVars   == <<table, query>>

-----------------------------------------------------------------------------
(* Bounds *)

\* Longest document text (in bytes) in SpecEdit.
MaxLen == 1
\* Most content changes in one didChange notification (Spec).
MaxChanges == 1
\* Most file events in one didChangeWatchedFiles notification (Spec).
MaxEvents == 1

-----------------------------------------------------------------------------
(* Texts, ropes and positions *)

Chars == {"a", "\n"}

RECURSIVE TextsUpTo(_)
TextsUpTo(n) ==
    IF n = 0 THEN {<<>>}
    ELSE LET shorter == TextsUpTo(n - 1)
         IN  shorter \cup {Append(t, c) : t \in {s \in shorter : Len(s) = n - 1}, c \in Chars}

\* Every text of SpecEdit.
EditTexts == TextsUpTo(MaxLen)

\* The texts the client sends in SpecConc and SpecRace, and the one it sends
\* in Spec (where the disk holds the other).
StoreTexts == {<<"a">>, <<"\n">>}
ClientTexts == {<<"a">>}

None == [none |-> TRUE]
Some(v) == [some |-> v]

\* A `let` of the code: the value is computed once and handed on.
Let(value, In(_)) == CHOOSE out \in {In(v) : v \in {value}} : TRUE

\* ropey::Rope::len_lines: the number of line breaks plus one.
RECURSIVE len_lines(_)
len_lines(rope) ==
    IF rope = <<>> THEN 1
    ELSE (IF Head(rope) = "\n" THEN 1 ELSE 0) + len_lines(Tail(rope))

\* ropey::Rope::line_to_byte: the byte at which line `line` starts.
RECURSIVE line_to_byte(_, _)
line_to_byte(rope, line) ==
    IF line = 0 THEN 0
    ELSE LET nl == CHOOSE i \in 1..Len(rope) :
                       /\ rope[i] = "\n"
                       /\ \A j \in 1..(i - 1) : rope[j] # "\n"
         IN  nl + line_to_byte(SubSeq(rope, nl + 1, Len(rope)), line - 1)

lsp_position_to_byte_offset(rope, pos) ==
    IF pos.line >= len_lines(rope) THEN None
    ELSE Some(line_to_byte(rope, pos.line) + pos.character)

offset_from_position(rope, pos) == lsp_position_to_byte_offset(rope, pos)

\* String::replace_range(start..end, text) panics when the range is not
\* inside the string or is reversed.
replace_range_panics(source, start, end) ==
    start > Len(source) \/ end > Len(source) \/ start > end

replace_range(source, start, end, text) ==
    SubSeq(source, 1, start) \o text \o SubSeq(source, end + 1, Len(source))

-----------------------------------------------------------------------------
(* DocumentState *)

NoDoc == [absent |-> TRUE]

\* The tree-sitter tree, the symbol table and the diagnostics are functions
\* of the source they were derived from; each is kept as that source, tagged.
Tree(source) == [tree_of |-> source]
extract_symbols(source) == [symbols_of |-> source]
extract_diagnostics(source) == [diagnostics_of |-> source]

\* al_parser::parse gives a tree or nothing; which one is the parser's
\* business (`ok`), not the text's.
parse(source, ok) == IF ok THEN Some(Tree(source)) ELSE None

DocumentState_new(source, ok) ==
    IF parse(source, ok) = None THEN None
    ELSE Some([rope |-> source,
               tree |-> parse(source, ok).some,
               symbol_table |-> extract_symbols(source),
               diagnostics |-> extract_diagnostics(source)])

reparse_full(doc, source, ok) ==
    LET roped == [doc EXCEPT !.rope = source]
    IN  IF parse(source, ok) = None THEN roped
        ELSE [roped EXCEPT !.tree = parse(source, ok).some,
                           !.symbol_table = extract_symbols(source),
                           !.diagnostics = extract_diagnostics(source)]

\* DocumentState::apply_edit: the bytes start_byte..old_end_byte of the rope
\* give way to the first new_end_byte - start_byte bytes of new_source, and
\* the text is parsed again (`ok`, as in parse).  Rope::byte_to_char and
\* Rope::remove panic on a start past the end of the text or past the end of
\* the range.  `new_end_byte - start_byte` is a subtraction of usize: below
\* zero it panics in a build with overflow checks and wraps in one without,
\* and the whole of new_source is then inserted.  The result is the set of
\* the documents a build can leave.  No handler of the server calls it.
apply_edit(doc, start_byte, old_end_byte, new_end_byte, new_source, ok) ==
    LET old_end == IF old_end_byte < Len(doc.rope) THEN old_end_byte ELSE Len(doc.rope)
        cut     == IF new_end_byte - start_byte < Len(new_source)
                   THEN new_end_byte - start_byte ELSE Len(new_source)
    IN  IF start_byte > Len(doc.rope) \/ start_byte > old_end
        THEN {[panicked |-> TRUE, doc |-> doc]}
        ELSE IF new_end_byte < start_byte
        THEN {[panicked |-> TRUE,
               doc |-> [doc EXCEPT !.rope = replace_range(doc.rope, start_byte, old_end, <<>>)]],
              [panicked |-> FALSE,
               doc |-> reparse_full(doc, replace_range(doc.rope, start_byte, old_end,
                                                       new_source), ok)]}
        ELSE {[panicked |-> FALSE,
               doc |-> reparse_full(doc, replace_range(doc.rope, start_byte, old_end,
                                                       SubSeq(new_source, 1, cut)), ok)]}

-----------------------------------------------------------------------------
(* The file system and the URIs *)

\* The current directory of the server process: a relative path starts there.
CurrentDir == "/"

\* Path::is_absolute.
is_absolute(root) == Len(root) > 0 /\ SubSeq(root, 1, 1) = "/"

\* The directory a root names, and the file a path names: what the operating
\* system makes of them.
canonical(root) == IF is_absolute(root) THEN root ELSE CurrentDir \o root
absolute(path) == [path EXCEPT !.root = canonical(@)]

\* The directories a root_path can name (Path::is_dir): a directory by its
\* absolute path, and the same directory by its path from the current
\* directory.
RootDirs == {"/w", "w"}

\* A path: the root directory it starts at, the directories between the
\* root and the file, and the file name.
File(root, dirs, stem, ext) == [root |-> root, dirs |-> dirs, stem |-> stem, ext |-> ext]

\* The file of the model (SpecScan has a tree of them).
Paths == {File("/w", <<>>, "a", "AL")}

\* A URL: its scheme and its path (no URL of the model has a host); a URL
\* such as `untitled:Untitled-1` has no path.
Url(scheme, path) == [scheme |-> scheme, path |-> path]
NoPath == File("", <<>>, "", "")

\* Url::from_file_path: the `file` URL of an absolute path; a relative path
\* has none.
from_file_path(path) ==
    IF is_absolute(path.root) THEN Some(Url("file", path)) ELSE None

\* Url::to_file_path: the path of the URL, whatever its scheme; a URL without
\* a path has none.
to_file_path(uri) == IF uri.path = NoPath THEN None ELSE Some(uri.path)

\* The URIs the client names: the `file` URL of the file, and the URL under
\* which a source-control view shows the same file.
URIs == {Url(scheme, p) : scheme \in {"file", "git"}, p \in Paths}

NoFile == [file |-> "absent"]
Unreadable == [file |-> "unreadable"]
FileWith(text) == [file |-> "present", text |-> text]
\* What a path can hold on disk.
DiskTexts == {<<"\n">>}
DiskValues == {NoFile, Unreadable} \cup {FileWith(t) : t \in DiskTexts}

\* Path::exists and std::fs::read_to_string.
exists(fs, path) == fs[absolute(path)] # NoFile
read_to_string(fs, path) ==
    IF fs[absolute(path)].file = "present" THEN Some(fs[absolute(path)].text) ELSE None

\* ASCII lower-casing of the extensions of the model.
ascii_lower(s) == CASE s = "AL" -> "al" [] s = "Al" -> "al" [] s = "aL" -> "al" [] OTHER -> s

\* The comparison of the extension without the folding of the case.
eq_exactly(a, b) == a = b

eq_ignore_ascii_case(a, b) == ascii_lower(a) = ascii_lower(b)

\* scan_directory does not descend into these.
starts_with_dot(name) == name \in {".git", ".hidden", ".vscode"}
skipped_dir(name) == starts_with_dot(name) \/ name = "node_modules" \/ name = "target"

-----------------------------------------------------------------------------
(* WorldState: the document store *)

contains_key(docs, uri) == docs[uri] # NoDoc
insert(docs, uri, doc) == [docs EXCEPT ![uri] = doc]
remove(docs, uri) == [docs EXCEPT ![uri] = NoDoc]

\* DashMap keeps its entries in shards, each under one lock: get, get_mut,
\* insert, remove and contains_key lock the shard the key hashes to, and a
\* guard keeps that shard locked.  The hasher is seeded when the process
\* starts, so which keys share a shard, and the order in which iter() yields
\* the keys (shard by shard), are fixed for a run and differ between runs.
Shards == 1..Cardinality(URIs)

Orders ==
    {order \in [1..Cardinality(URIs) -> URIs] :
        \A i, j \in 1..Cardinality(URIs) : order[i] = order[j] => i = j}

UriOrder == CHOOSE order \in Orders : TRUE

\* What the seed decides: the shard of each key (the shards in use numbered
\* from 1) and an iteration order that goes through the shards in turn.
Hashings ==
    {h \in [shard : [URIs -> Shards], order : Orders] :
        /\ \A s \in Shards : (\E u \in URIs : h.shard[u] = s)
                               => \A r \in 1..s : \E u \in URIs : h.shard[u] = r
        /\ \A i, j \in 1..Cardinality(URIs) :
               i < j => h.shard[h.order[i]] <= h.shard[h.order[j]]}

NoHolder == 0

\* The map with no shard locked.
DashMap(hashing) ==
    [shard |-> hashing.shard, order |-> hashing.order,
     holder |-> [s \in Shards |-> NoHolder]]

\* The maps of the specifications in which no handler walks the map (the
\* order is then of no account), and of those in which no guard outlives a
\* step (the shards are then of no account).
Unlocked == {DashMap(h) : h \in {g \in Hashings : g.order = UriOrder}}
Unwalked == {DashMap(h) : h \in {g \in Hashings : \A u \in URIs : g.shard[u] = 1}}

\* The lock of the shard of `uri` is held by a handler.
locked(uri) == locks.holder[locks.shard[uri]] # NoHolder
lock(uri, t) == [locks EXCEPT !.holder[locks.shard[uri]] = t]
unlock(uri) == [locks EXCEPT !.holder[locks.shard[uri]] = NoHolder]

\* DashMap::len asks for the lock of every shard in turn.
len_locked == \E s \in Shards : locks.holder[s] # NoHolder

\* load_file_uri without its "already loaded" test: the scan overwrites.
load_file_uri_overwriting(docs, fs, uri, path, ok) ==
    IF read_to_string(fs, path) = None THEN docs
    ELSE IF DocumentState_new(read_to_string(fs, path).some, ok) = None THEN docs
    ELSE insert(docs, uri, DocumentState_new(read_to_string(fs, path).some, ok).some)

load_file_uri(docs, fs, uri, path, ok) ==
    IF contains_key(docs, uri) THEN docs
    ELSE IF read_to_string(fs, path) = None THEN docs
    ELSE IF DocumentState_new(read_to_string(fs, path).some, ok) = None THEN docs
    ELSE insert(docs, uri, DocumentState_new(read_to_string(fs, path).some, ok).some)

\* load_file: a path that has no URI is passed over.
load_file(docs, fs, path, ok) ==
    IF from_file_path(path) = None THEN docs
    ELSE load_file_uri(docs, fs, from_file_path(path).some, path, ok)

\* A directory of the disk: the entry without a file name.  std::fs::read_dir
\* fails on a directory that cannot be read; a directory the disk does not
\* list can be.
Directory(root, dirs) == File(root, dirs, "", "")
read_dir(fs, dir) ==
    absolute(dir) \notin DOMAIN fs \/ fs[absolute(dir)].file \notin {"absent", "unreadable"}

\* The paths std::fs::read_dir builds below `root`: the root as it is
\* written, and the names from there down to the entry.
dir_entries(fs, root) ==
    {[p EXCEPT !.root = root] : p \in {q \in DOMAIN fs : q.root = canonical(root)}}

\* The entries scan_directory reaches from `root` and hands to load_file:
\* every directory from the root down to the file is read, none below the
\* root is skipped, and the extension is `al` in any case.
scanned(fs, root, path) ==
    /\ path.root = root
    /\ exists(fs, path)
    /\ \A i \in 0..Len(path.dirs) : read_dir(fs, Directory(root, SubSeq(path.dirs, 1, i)))
    /\ \A i \in 1..Len(path.dirs) : ~skipped_dir(path.dirs[i])
    /\ eq_ignore_ascii_case(path.ext, "al")

RECURSIVE load_entries(_, _, _, _)
load_entries(docs, fs, entries, oks) ==
    IF entries = {} THEN docs
    ELSE LET path == CHOOSE p \in entries : TRUE
         IN  load_entries(load_file(docs, fs, path, oks[absolute(path)]), fs,
                          entries \ {path}, oks)

scan_directory(docs, fs, dir, oks) ==
    load_entries(docs, fs, {p \in dir_entries(fs, dir) : scanned(fs, dir, p)}, oks)

RECURSIVE load_workspace_files(_, _, _, _)
load_workspace_files(docs, roots, fs, oks) ==
    IF roots = <<>> THEN docs
    ELSE load_workspace_files(scan_directory(docs, fs, Head(roots), oks), Tail(roots), fs, oks)

\* load_workspace_files beside the guards of suspended handlers: load_file_uri
\* asks for the shard of each file it is handed (contains_key), and blocks at
\* the first whose shard is locked; a path without a URI does not get there.  std::fs::read_dir yields the entries of
\* a directory in no specified order, so any of the other files of that root
\* may have been loaded before.
RECURSIVE scan_outcomes(_, _, _, _)
scan_outcomes(docs, roots, fs, oks) ==
    IF roots = <<>> THEN {[docs |-> docs, blocked |-> FALSE]}
    ELSE LET entries == {p \in dir_entries(fs, Head(roots)) : scanned(fs, Head(roots), p)}
             free    == {p \in entries : from_file_path(p) = None
                                           \/ ~locked(from_file_path(p).some)}
         IN  IF free # entries
             THEN {[docs |-> load_entries(docs, fs, loaded, oks), blocked |-> TRUE] :
                      loaded \in SUBSET free}
             ELSE scan_outcomes(scan_directory(docs, fs, Head(roots), oks),
                                Tail(roots), fs, oks)

\* reload_file_from_disk that also drops the document of a file it cannot
\* read.
reload_file_from_disk_dropping(docs, fs, uri, ok) ==
    IF to_file_path(uri) = None THEN docs
    ELSE LET path == to_file_path(uri).some
         IN  IF read_to_string(fs, path) = None THEN remove(docs, uri)
             ELSE IF DocumentState_new(read_to_string(fs, path).some, ok) = None THEN docs
             ELSE insert(docs, uri, DocumentState_new(read_to_string(fs, path).some, ok).some)

reload_file_from_disk(docs, fs, uri, ok) ==
    IF to_file_path(uri) = None THEN docs
    ELSE LET path == to_file_path(uri).some
         IN  IF ~exists(fs, path) THEN remove(docs, uri)
             ELSE IF read_to_string(fs, path) = None THEN docs
             ELSE IF DocumentState_new(read_to_string(fs, path).some, ok) = None THEN docs
             ELSE insert(docs, uri, DocumentState_new(read_to_string(fs, path).some, ok).some)

-----------------------------------------------------------------------------
(* The text-synchronisation handlers *)

\* A didOpen that keeps the Document the map already holds for the URI.
handle_did_open_keeping(docs, uri, text, ok) ==
    IF contains_key(docs, uri) \/ DocumentState_new(text, ok) = None THEN docs
    ELSE insert(docs, uri, DocumentState_new(text, ok).some)

handle_did_open(docs, uri, text, ok) ==
    IF DocumentState_new(text, ok) = None THEN docs
    ELSE insert(docs, uri, DocumentState_new(text, ok).some)

\* One content change applied to the borrowed document: the document after
\* it, or a panic of String::replace_range.
apply_change(doc, change, ok) ==
    IF change.range # None
    THEN LET start == offset_from_position(doc.rope, change.range.some.start)
             end   == offset_from_position(doc.rope, change.range.some.end)
         IN  IF start # None /\ end # None
             THEN IF replace_range_panics(doc.rope, start.some, end.some)
                  THEN [panicked |-> TRUE, doc |-> doc]
                  ELSE [panicked |-> FALSE,
                        doc |-> reparse_full(doc,
                                   replace_range(doc.rope, start.some, end.some, change.text), ok)]
             ELSE [panicked |-> FALSE, doc |-> reparse_full(doc, doc.rope, ok)]
    ELSE [panicked |-> FALSE, doc |-> reparse_full(doc, change.text, ok)]

RECURSIVE apply_changes(_, _, _)
apply_changes(doc, changes, oks) ==
    IF changes = <<>> THEN [panicked |-> FALSE, doc |-> doc]
    ELSE LET first == apply_change(doc, Head(changes), Head(oks))
         IN  IF first.panicked THEN first
             ELSE apply_changes(first.doc, Tail(changes), Tail(oks))

\* handle_did_change that opens the document when the URI is not loaded.
handle_did_change_opening(docs, uri, changes, oks) ==
    IF ~contains_key(docs, uri)
    THEN [panicked |-> FALSE,
          docs |-> IF DocumentState_new(Head(changes).text, Head(oks)) = None THEN docs
                   ELSE insert(docs, uri, DocumentState_new(Head(changes).text, Head(oks)).some)]
    ELSE LET r == apply_changes(docs[uri], changes, oks)
         IN  [panicked |-> r.panicked, docs |-> insert(docs, uri, r.doc)]

\* handle_did_change: the map after the notification and whether the
\* handler panicked.
handle_did_change(docs, uri, changes, oks) ==
    IF ~contains_key(docs, uri) THEN [panicked |-> FALSE, docs |-> docs]
    ELSE LET r == apply_changes(docs[uri], changes, oks)
         IN  [panicked |-> r.panicked, docs |-> insert(docs, uri, r.doc)]

\* handle_did_close that evicts the closed document.
handle_did_close_evicting(docs, uri) == remove(docs, uri)

handle_did_close(docs, uri) == docs

\* reload_file_from_disk asks for the lock of the shard of `uri`: it removes
\* the entry of a path that is gone, and inserts the document it has read and
\* parsed; it returns without a word to the map otherwise.
reload_locks(fs, uri, ok) ==
    /\ to_file_path(uri) # None
    /\ \/ ~exists(fs, to_file_path(uri).some)
       \/ /\ read_to_string(fs, to_file_path(uri).some) # None
          /\ DocumentState_new(read_to_string(fs, to_file_path(uri).some).some, ok) # None

\* did_change_watched_files: the map after the notification, or the map at
\* the change that asks for a locked shard (the handler then blocks).  Each
\* change carries, beside its URI and type, whether the parser gives a tree
\* for the file when the change makes the server read it (`ok`).
RECURSIVE did_change_watched_files(_, _, _)
did_change_watched_files(docs, fs, changes) ==
    IF changes = <<>> THEN [docs |-> docs, blocked |-> FALSE]
    ELSE LET change == Head(changes)
             asks   == CASE change.typ \in {"CREATED", "CHANGED"} ->
                               reload_locks(fs, change.uri, change.ok)
                         [] change.typ = "DELETED" -> TRUE
                         [] OTHER -> FALSE
             after  == CASE change.typ \in {"CREATED", "CHANGED"} ->
                               reload_file_from_disk(docs, fs, change.uri, change.ok)
                         [] change.typ = "DELETED" -> remove(docs, change.uri)
                         [] OTHER -> docs
         IN  IF asks /\ locked(change.uri) THEN [docs |-> docs, blocked |-> TRUE]
             ELSE did_change_watched_files(after, fs, Tail(changes))

\* initialize: the roots come from workspace_folders, else root_uri, else
\* root_path (kept only when it is a directory).
initialize_roots(params) ==
    LET from_folders == IF params.workspace_folders = None THEN <<>>
                        ELSE params.workspace_folders.some
        from_uri  == IF from_folders = <<>> /\ params.root_uri # None
                     THEN <<params.root_uri.some>> ELSE from_folders
    IN  IF from_uri = <<>> /\ params.root_path # None /\ params.root_path.some \in RootDirs
        THEN <<params.root_path.some>> ELSE from_uri

\* Vec::retain(|r| r != path) and the push of a folder not yet a root.
retain_not(roots, path) == SelectSeq(roots, LAMBDA r : r # path)

RECURSIVE remove_folders(_, _)
remove_folders(roots, removed) ==
    IF removed = <<>> THEN roots
    ELSE remove_folders(retain_not(roots, Head(removed)), Tail(removed))

RECURSIVE add_folders(_, _)
add_folders(roots, added) ==
    IF added = <<>> THEN roots
    ELSE add_folders(IF \E i \in 1..Len(roots) : roots[i] = Head(added)
                     THEN roots ELSE Append(roots, Head(added)),
                     Tail(added))

change_workspace_folders(roots, removed, added) ==
    add_folders(remove_folders(roots, removed), added)

-----------------------------------------------------------------------------
(* Inputs *)

RECURSIVE SeqsOfLen(_, _)
SeqsOfLen(S, n) ==
    IF n = 0 THEN {<<>>}
    ELSE {Append(q, x) : q \in SeqsOfLen(S, n - 1), x \in S}

\* The sequences of 1..n elements of S.
Batches(S, n) == UNION {SeqsOfLen(S, k) : k \in 1..n}

\* A content change without a range: the whole new text (the sync kind the
\* server advertises, backend.rs, TextDocumentSyncKind::FULL).
FullChanges(texts) == {[range |-> None, text |-> t] : t \in texts}

Positions == {[line |-> l, character |-> c] : l \in 0..MaxLen, c \in 0..(MaxLen + 1)}

RangedChanges(texts) ==
    {[range |-> Some([start |-> s, end |-> e]), text |-> t] :
        s \in Positions, e \in Positions, t \in texts}

FileEvents ==
    {[uri |-> u, typ |-> t, ok |-> k] : u \in URIs, t \in {"CREATED", "CHANGED"}, k \in BOOLEAN}
    \cup {[uri |-> u, typ |-> "DELETED", ok |-> TRUE] : u \in URIs}

\* The files a scan can hand to the parser: one parse outcome for each.
ScanCandidates ==
    {p \in Paths : eq_ignore_ascii_case(p.ext, "al")
                    /\ \A i \in 1..Len(p.dirs) : ~skipped_dir(p.dirs[i])}
ParseOutcomes == [ScanCandidates -> BOOLEAN]

InitializeParams ==
    {[workspace_folders |-> f, root_uri |-> u, root_path |-> p] :
        f \in {None, Some(<<>>), Some(<<"/w">>)},
        u \in {None, Some("/w")},
        p \in {None, Some("/w"), Some("w"), Some("/nodir")}}

FolderLists == {<<>>, <<"/w">>}

NoUri == [scheme |-> "none"]

\* The record of a handled message: which handler, for which URI, with which
\* file events, how many of its parses gave a tree, and the URIs the step
\* took out of the map (gone) and put into it (came).
Handled(op, uri, events, trees) ==
    [op |-> op, uri |-> uri, events |-> events, trees |-> trees,
     gone |-> {u \in URIs : contains_key(documents, u) /\ ~contains_key(documents', u)},
     came |-> {u \in URIs : ~contains_key(documents, u) /\ contains_key(documents', u)}]

Unhandled ==
    [op |-> "none", uri |-> NoUri, events |-> <<>>, trees |-> 0, gone |-> {}, came |-> {}]

\* How many of the first n parses of a didChange produced a tree.
RECURSIVE CountTrue(_)
CountTrue(oks) ==
    IF oks = <<>> THEN 0 ELSE (IF Head(oks) THEN 1 ELSE 0) + CountTrue(Tail(oks))

Serving == phase = "running"

-----------------------------------------------------------------------------
(* Spec: the handlers of the document lifecycle, cut at their awaits *)

\* Every handler future is polled by the one task that runs Server::serve
\* (main.rs): nothing is spawned.  A step is what that task does between two
\* suspensions: a message is handed to its handler, which runs to its first
\* await or to its end, or a suspended handler runs from its await to the
\* next one or to its end.  The awaits are the sends to the client
\* (publish_diagnostics, log_message, show_message).  The guards of the map
\* are not async: a handler that asks for a shard whose lock a suspended
\* handler holds blocks the polling thread, and with it the server.

\* Most handlers suspended at an await at one time.
MaxInFlight == 2

StoreInit ==
    /\ documents = [u \in URIs |-> NoDoc]
    /\ workspace_roots = <<>>
    /\ disk = [p \in Paths |-> NoFile]
    /\ phase = "new"
    /\ last = Unhandled

IdleConc ==
    /\ tasks = <<>>
    /\ locks = <<>>
    /\ thread = "idle"

IdleSym ==
    /\ table = <<>>
    /\ query = <<>>

Init ==
    /\ StoreInit
    /\ tasks = <<>>
    /\ locks \in Unlocked
    /\ thread = "idle"
    /\ IdleSym

\* The server takes the next message: the thread is not blocked and fewer
\* than MaxInFlight handlers are suspended.  `tasks` holds the futures of
\* the suspended handlers, the oldest first.
Accepting ==
    /\ Serving
    /\ thread = "idle"
    /\ Len(tasks) < MaxInFlight

\* The new future is the last of the list.
Put(task) == Append(tasks, task)

\* The future in slot t has returned and is dropped: the later ones move up
\* a slot, and the guards it held are dropped with it.
Retire(t) == SubSeq(tasks, 1, t - 1) \o SubSeq(tasks, t + 1, Len(tasks))

Dropped(t) ==
    [locks EXCEPT !.holder = [s \in Shards |-> IF @[s] = t THEN NoHolder
                                               ELSE IF @[s] > t THEN @[s] - 1
                                               ELSE @[s]]]

\* The handler in slot t is suspended at `pc` and is polled again.
Resumed(t, kind, pc) ==
    /\ Serving
    /\ thread = "idle"
    /\ t \in 1..Len(tasks)
    /\ tasks[t].kind = kind
    /\ tasks[t].pc = pc

SetPc(t, pc) == [tasks EXCEPT ![t].pc = pc]

\* initialize: resolve the workspace roots.  It has no await.
Initialize(params) ==
    /\ phase = "new"
    /\ thread = "idle"
    /\ workspace_roots' = initialize_roots(params)
    /\ phase' = "running"
    /\ UNCHANGED <<documents, disk>>
    /\ UNCHANGED <<concVars, symVars>>
    /\ last' = Handled("initialize", NoUri, <<>>, 0)

\* initialized up to its first await: the roots are copied, and the first
\* log message (the warning, or the announcement of the first root) is sent.
\* The server runs the handler at every `initialized` it is sent.
Initialized ==
    /\ Accepting
    /\ tasks' = Put([kind |-> "initialized",
                     left |-> IF workspace_roots = <<>> THEN <<>>
                              ELSE Tail(workspace_roots),
                     pc |-> "announcing"])
    /\ UNCHANGED <<documents, workspace_roots, disk, phase, locks, thread>>
    /\ UNCHANGED symVars
    /\ last' = Handled("initialized", NoUri, <<>>, 0)

\* initialized from the await of an announcement to its next await: the
\* announcement of the next root or, after the last, load_workspace_files
\* (which reads the roots anew), `documents.len()` and the log message with
\* the counts.
InitializedScan(t, oks) ==
    /\ Resumed(t, "initialized", "announcing")
    /\ IF tasks[t].left # <<>>
       THEN /\ tasks' = [tasks EXCEPT ![t].left = Tail(@)]
            /\ UNCHANGED <<documents, thread>>
            /\ last' = Handled("initialized", NoUri, <<>>, 0)
       ELSE \E scan \in scan_outcomes(documents, workspace_roots, disk, oks) :
               /\ documents' = scan.docs
               /\ tasks' = SetPc(t, IF scan.blocked \/ len_locked THEN "blocked"
                                    ELSE "logging")
               /\ thread' = IF scan.blocked \/ len_locked THEN "blocked" ELSE thread
               /\ last' = Handled("scan", NoUri, <<>>, 0)
    /\ UNCHANGED <<workspace_roots, disk, phase, locks>>
    /\ UNCHANGED symVars

\* initialized from the await of log_message to that of show_message, and
\* from there to its end.
InitializedShow(t) ==
    /\ \/ /\ Resumed(t, "initialized", "logging")
          /\ tasks' = SetPc(t, "showing")
          /\ UNCHANGED locks
       \/ /\ Resumed(t, "initialized", "showing")
          /\ tasks' = Retire(t)
          /\ locks' = Dropped(t)
    /\ UNCHANGED <<documents, workspace_roots, disk, phase, thread>>
    /\ UNCHANGED symVars
    /\ last' = Handled("resumed", NoUri, <<>>, 0)

\* handle_did_open up to `publish_diagnostics(..).await`: the document is
\* built and its diagnostics are sent; the map is not touched.  Without a
\* tree the handler returns at once.
DidOpen(uri, text, ok) ==
    /\ Accepting
    /\ IF DocumentState_new(text, ok) = None THEN UNCHANGED tasks
       ELSE tasks' = Put([kind |-> "didOpen", uri |-> uri, text |-> text,
                          pc |-> "publishing"])
    /\ UNCHANGED <<documents, workspace_roots, disk, phase, locks, thread>>
    /\ UNCHANGED symVars
    /\ last' = Handled("didOpen", uri, <<>>, IF ok THEN 1 ELSE 0)

\* handle_did_open after the await: `documents.insert`, under the lock of
\* the shard.
DidOpenInsert(t) ==
    /\ Resumed(t, "didOpen", "publishing")
    /\ IF locked(tasks[t].uri)
       THEN /\ tasks' = SetPc(t, "blocked")
            /\ thread' = "blocked"
            /\ UNCHANGED <<documents, locks>>
       ELSE /\ documents' = handle_did_open(documents, tasks[t].uri, tasks[t].text, TRUE)
            /\ tasks' = Retire(t)
            /\ locks' = Dropped(t)
            /\ UNCHANGED thread
    /\ UNCHANGED <<workspace_roots, disk, phase>>
    /\ UNCHANGED symVars
    /\ last' = Handled("didOpen", tasks[t].uri, <<>>, 0)

\* handle_did_change up to `publish_diagnostics(..).await`: `get_mut` takes
\* the lock of the shard, the changes are applied to the document in the
\* map, and the guard `doc` is alive when the handler suspends.  A panic of
\* the handler takes the server down (the guard is dropped on the way).
DidChangeToAwait(uri, changes, oks) ==
    IF locked(uri)
    THEN /\ tasks' = Put([kind |-> "didChange", uri |-> uri, pc |-> "blocked"])
         /\ thread' = "blocked"
         /\ UNCHANGED <<documents, phase, locks>>
    ELSE LET r == handle_did_change(documents, uri, changes, oks)
         IN  /\ documents' = r.docs
             /\ phase' = IF r.panicked THEN "crashed" ELSE phase
             /\ IF r.panicked \/ ~contains_key(documents, uri)
                THEN UNCHANGED <<tasks, locks>>
                ELSE /\ tasks' = Put([kind |-> "didChange", uri |-> uri,
                                      pc |-> "publishing"])
                     /\ locks' = lock(uri, Len(tasks) + 1)
             /\ UNCHANGED thread

DidChange(uri, changes, oks) ==
    /\ Accepting
    /\ DidChangeToAwait(uri, changes, oks)
    /\ UNCHANGED <<workspace_roots, disk>>
    /\ UNCHANGED symVars
    /\ last' = Handled("didChange", uri, <<>>,
                       IF locked(uri) \/ ~contains_key(documents, uri) THEN 0
                       ELSE CountTrue(oks))

\* handle_did_change after the await: the guard is dropped.
DidChangeRelease(t) ==
    /\ Resumed(t, "didChange", "publishing")
    /\ locks' = Dropped(t)
    /\ tasks' = Retire(t)
    /\ UNCHANGED <<documents, workspace_roots, disk, phase, thread>>
    /\ UNCHANGED symVars
    /\ last' = Handled("resumed", NoUri, <<>>, 0)

\* handle_did_close: it has no await and does not touch the map.
DidClose(uri) ==
    /\ Accepting
    /\ documents' = handle_did_close(documents, uri)
    /\ UNCHANGED <<workspace_roots, disk, phase>>
    /\ UNCHANGED <<concVars, symVars>>
    /\ last' = Handled("didClose", uri, <<>>, 0)

\* did_change_watched_files: it has no await.
DidChangeWatchedFiles(changes) ==
    /\ Accepting
    /\ LET r == did_change_watched_files(documents, disk, changes)
       IN  /\ documents' = r.docs
           /\ tasks' = IF r.blocked
                       THEN Put([kind |-> "didChangeWatchedFiles", pc |-> "blocked"])
                       ELSE tasks
           /\ thread' = IF r.blocked THEN "blocked" ELSE thread
    /\ last' = Handled("watched", NoUri, [i \in 1..Len(changes) |->
                                            [uri |-> changes[i].uri, typ |-> changes[i].typ]], 0)
    /\ UNCHANGED <<workspace_roots, disk, phase, locks>>
    /\ UNCHANGED symVars

\* did_change_workspace_folders up to its await: the roots are changed,
\* load_workspace_files runs, and the log message is sent.
DidChangeWorkspaceFolders(removed, added, oks) ==
    /\ Accepting
    /\ workspace_roots' = change_workspace_folders(workspace_roots, removed, added)
    /\ \E scan \in scan_outcomes(documents, workspace_roots', disk, oks) :
          /\ documents' = scan.docs
          /\ tasks' = Put([kind |-> "didChangeWorkspaceFolders",
                           pc |-> IF scan.blocked THEN "blocked" ELSE "logging"])
          /\ thread' = IF scan.blocked THEN "blocked" ELSE thread
    /\ UNCHANGED <<disk, phase, locks>>
    /\ UNCHANGED symVars
    /\ last' = Handled("folders", NoUri, <<>>, 0)

\* did_change_workspace_folders after the await: it returns.
WorkspaceFoldersLogged(t) ==
    /\ Resumed(t, "didChangeWorkspaceFolders", "logging")
    /\ tasks' = Retire(t)
    /\ locks' = Dropped(t)
    /\ UNCHANGED <<documents, workspace_roots, disk, phase, thread>>
    /\ UNCHANGED symVars
    /\ last' = Handled("resumed", NoUri, <<>>, 0)

\* A query handler (hover): `documents.get` takes the lock of the shard for
\* the whole query; the handler has no await.
Hover(uri) ==
    /\ Accepting
    /\ IF locked(uri)
       THEN /\ tasks' = Put([kind |-> "hover", uri |-> uri, pc |-> "blocked"])
            /\ thread' = "blocked"
       ELSE UNCHANGED <<tasks, thread>>
    /\ UNCHANGED <<documents, workspace_roots, disk, phase, locks>>
    /\ UNCHANGED symVars
    /\ last' = Handled("hover", NoUri, <<>>, 0)

\* The environment: a file is written, made unreadable or deleted.
FsWrite(path, value) ==
    /\ disk[path] # value
    /\ disk' = [disk EXCEPT ![path] = value]
    /\ UNCHANGED <<documents, workspace_roots, phase>>
    /\ UNCHANGED <<concVars, symVars>>
    /\ last' = Handled("fs", NoUri, <<>>, 0)

Next ==
       \/ \E params \in InitializeParams : Initialize(params)
       \/ Initialized
       \/ \E t \in 1..MaxInFlight, oks \in ParseOutcomes : InitializedScan(t, oks)
       \/ \E t \in 1..MaxInFlight : InitializedShow(t)
       \/ \E uri \in URIs, text \in ClientTexts, ok \in BOOLEAN : DidOpen(uri, text, ok)
       \/ \E t \in 1..MaxInFlight : DidOpenInsert(t)
       \/ \E uri \in URIs, changes \in Batches(FullChanges(ClientTexts), MaxChanges) :
              \E oks \in SeqsOfLen(BOOLEAN, Len(changes)) : DidChange(uri, changes, oks)
       \/ \E t \in 1..MaxInFlight : DidChangeRelease(t)
       \/ \E uri \in URIs : DidClose(uri)
       \/ \E changes \in Batches(FileEvents, MaxEvents) : DidChangeWatchedFiles(changes)
       \/ \E removed \in FolderLists, added \in FolderLists, oks \in ParseOutcomes :
              DidChangeWorkspaceFolders(removed, added, oks)
       \/ \E t \in 1..MaxInFlight : WorkspaceFoldersLogged(t)
       \/ \E uri \in URIs : Hover(uri)
       \/ \E path \in Paths, value \in DiskValues : FsWrite(path, value)

Spec == Init /\ [][Next]_vars

-----------------------------------------------------------------------------
(* The document lifecycle (Spec) *)

\* A file event of the last notification that names `uri` with one of `typs`.
EventFor(uri, typs) ==
    \E i \in 1..Len(last.events) : last.events[i].uri = uri /\ last.events[i].typ \in typs

PathGone(uri) == to_file_path(uri) # None /\ ~exists(disk, to_file_path(uri).some)

\* C1: a URI leaves the document map only through a watched-file DELETED
\* event for it, or a watched-file CREATED/CHANGED reload of it whose path no
\* longer exists on disk; no other handler removes a Document.
C1_EvictedOnlyByFileEvents ==
    \A u \in last.gone :
        /\ last.op = "watched"
        /\ \/ EventFor(u, {"DELETED"})
           \/ EventFor(u, {"CREATED", "CHANGED"}) /\ PathGone(u)

\* A Document was removed by a reload whose path is gone.
C1_Witness ==
    \E u \in last.gone : EventFor(u, {"CHANGED"}) /\ ~EventFor(u, {"DELETED"}) /\ PathGone(u)

\* C2: didClose, for a loaded URI or not, leaves the whole document map as it
\* was: nothing removed, added or modified.
C2_DidCloseKeepsTheMap ==
    [][last'.op = "didClose" => documents' = documents]_vars

\* didClose was handled for a URI that is loaded.
C2_Witness == last.op = "didClose" /\ contains_key(documents, last.uri)

\* C3: a workspace scan (at initialized, or after a workspace-folder change)
\* leaves the Document of every URI already in the map untouched.
C3_ScanKeepsLoadedDocuments ==
    [][last'.op \in {"scan", "folders"} =>
          \A u \in URIs : contains_key(documents, u) => documents'[u] = documents[u]]_vars

\* A scan has reached a file whose URI was loaded with another text than the
\* file holds.
C3_Witness ==
    /\ last.op \in {"scan", "folders"}
    /\ \E p \in Paths :
          /\ \E i \in 1..Len(workspace_roots) : scanned(disk, workspace_roots[i], p)
          /\ read_to_string(disk, p) # None
          /\ contains_key(documents, from_file_path(p).some)
          /\ from_file_path(p).some \notin last.came
          /\ documents[from_file_path(p).some].rope # read_to_string(disk, p).some

\* C4 as claimed: a URI enters the map only through didOpen, a workspace
\* scan, or a watched-file CREATED event.
C4_LoadedOnlyByOpenScanCreated ==
    \A u \in last.came :
        \/ last.op = "didOpen" /\ last.uri = u
        \/ last.op \in {"scan", "folders"}
        \/ last.op = "watched" /\ EventFor(u, {"CREATED"})

\* C4 amended: a URI enters the map only through didOpen, a workspace scan,
\* or a watched-file CREATED or CHANGED event (both reload from disk).
C4_LoadedOnlyByOpenScanReload ==
    \A u \in last.came :
        \/ last.op = "didOpen" /\ last.uri = u
        \/ last.op \in {"scan", "folders"}
        \/ last.op = "watched" /\ EventFor(u, {"CREATED", "CHANGED"})

\* A watched-file CHANGED event loaded a URI that was absent.
C4_Witness ==
    \E u \in last.came : last.op = "watched" /\ EventFor(u, {"CHANGED"}) /\ ~EventFor(u, {"CREATED"})

\* C5: when the parser gives no tree for the new text of a didChange, the
\* stored Document is what it was before: rope, tree, symbol table and
\* diagnostics.
C5_ParseFailureKeepsDocument ==
    [][(last'.op = "didChange" /\ last'.trees = 0) => documents' = documents]_vars

\* C22: after every handled message (didOpen, didChange, scan, watched-file
\* reload) the rope of each Document is the source text its tree, its symbol
\* table and its diagnostics were derived from.
C22_RopeIsTheSourceOfTheTree ==
    \A u \in URIs :
        contains_key(documents, u) =>
            /\ documents[u].tree = Tree(documents[u].rope)
            /\ documents[u].symbol_table = extract_symbols(documents[u].rope)
            /\ documents[u].diagnostics = extract_diagnostics(documents[u].rope)

-----------------------------------------------------------------------------
(* SpecEdit: handle_did_change with every content change of the wire *)

\* The texts a ranged change inserts.
InsertTexts == TextsUpTo(1)

\* The record of a handled didChange: the offsets its range mapped to in the
\* text it was applied to, and whether the handler panicked.
Edited(uri, change, panicked) ==
    LET rope  == documents[uri].rope
        start == IF change.range = None THEN None
                 ELSE offset_from_position(rope, change.range.some.start)
        end   == IF change.range = None THEN None
                 ELSE offset_from_position(rope, change.range.some.end)
    IN  [op |-> "didChange", uri |-> uri, ranged |-> change.range # None,
         start |-> start, end |-> end, len |-> Len(rope), panicked |-> panicked]

EditInit ==
    /\ \E uri \in URIs, text \in EditTexts :
          documents = [u \in URIs |-> IF u = uri THEN DocumentState_new(text, TRUE).some
                                      ELSE NoDoc]
    /\ workspace_roots = <<>>
    /\ disk = [p \in Paths |-> NoFile]
    /\ phase = "running"
    /\ last = Unhandled

\* handle_did_change up to its await, with one content change, ranged or
\* full, for a loaded document; the parser gives a tree for every text here
\* (Spec has the other case).  A ranged change is applied to a text of at
\* most MaxLen bytes.
EditChange(uri, change) ==
    /\ Accepting
    /\ contains_key(documents, uri)
    /\ change.range # None => Len(documents[uri].rope) <= MaxLen
    /\ DidChangeToAwait(uri, <<change>>, <<TRUE>>)
    /\ last' = IF locked(uri) THEN Handled("blocked", uri, <<>>, 0)
               ELSE Edited(uri, change,
                           handle_did_change(documents, uri, <<change>>, <<TRUE>>).panicked)
    /\ UNCHANGED <<workspace_roots, disk>>
    /\ UNCHANGED symVars

InitEdit ==
    /\ EditInit
    /\ tasks = <<>>
    /\ locks \in Unlocked
    /\ thread = "idle"
    /\ IdleSym

NextEdit ==
    \/ \E uri \in URIs, change \in RangedChanges(InsertTexts) \cup FullChanges(EditTexts) :
           EditChange(uri, change)
    \/ \E t \in 1..MaxInFlight : DidChangeRelease(t)

SpecEdit == InitEdit /\ [][NextEdit]_vars

\* The last change had a range whose positions both mapped to offsets, with an
\* offset past the end of the text or the start offset after the end offset.
MalformedRange ==
    /\ last.op = "didChange" /\ last.ranged
    /\ last.start # None /\ last.end # None
    /\ \/ last.start.some > last.len
       \/ last.end.some > last.len
       \/ last.start.some > last.end.some

\* C7: handle_did_change does not panic on a malformed range: after a content
\* change whose range maps past the end of the text, or whose start offset is
\* greater than its end offset, the handler has completed normally and the
\* document is still in the map.
C7_NoPanicOnMalformedRange ==
    MalformedRange => (~last.panicked /\ phase # "crashed" /\ contains_key(documents, last.uri))

-----------------------------------------------------------------------------
(* SpecConc: the handlers cut at their await points *)

\* The handler futures are all polled by the one task that runs
\* Server::serve (main.rs); the server spawns nothing.  A step below is what
\* that task does between two suspensions of a handler: a handler runs from
\* where it stands to its next await (the send of a notification to the
\* client) or to its end.  DashMap's guards are not async: a handler that
\* asks for an entry of a shard whose lock another handler holds across its
\* await blocks the polling thread itself.  Here every message is queued
\* (Receive) before its handler is polled, and `tasks` keeps the handlers
\* that have returned.

\* Most handler invocations in flight or finished.
MaxTasks == 2

ConcInit ==
    /\ \E loaded \in SUBSET URIs :
          documents = [u \in URIs |-> IF u \in loaded
                                      THEN DocumentState_new(<<"a">>, TRUE).some ELSE NoDoc]
    /\ workspace_roots = <<>>
    /\ disk = [p \in Paths |-> NoFile]
    /\ phase = "running"
    /\ last = Unhandled
    /\ tasks = <<>>
    /\ locks \in Unlocked
    /\ thread = "idle"

InitConc == ConcInit /\ IdleSym

\* The transport hands a message to its handler: a new future.  `ok` is
\* whether the parser will give a tree for the text of the message.
Receive(kind, uri, text, ok) ==
    /\ thread = "idle"
    /\ Len(tasks) < MaxTasks
    /\ tasks' = Append(tasks, [kind |-> kind, uri |-> uri, text |-> text, ok |-> ok,
                               pc |-> "new"])
    /\ UNCHANGED <<documents, locks, thread>>
    /\ UNCHANGED <<workspace_roots, disk, phase, last, symVars>>

\* handle_did_open up to `publish_diagnostics(..).await`: the document is
\* built, no entry is borrowed.  Without a tree there is no document, and
\* the handler returns.
PollDidOpen(t) ==
    /\ thread = "idle"
    /\ t \in 1..Len(tasks)
    /\ tasks[t].kind = "didOpen" /\ tasks[t].pc = "new"
    /\ tasks' = SetPc(t, IF DocumentState_new(tasks[t].text, tasks[t].ok) = None
                         THEN "done" ELSE "publishing")
    /\ UNCHANGED <<documents, locks, thread>>
    /\ UNCHANGED <<workspace_roots, disk, phase, last, symVars>>

\* handle_did_open after the await: `documents.insert`, under the shard's
\* write lock.
ResumeDidOpen(t) ==
    /\ thread = "idle"
    /\ t \in 1..Len(tasks)
    /\ tasks[t].kind = "didOpen" /\ tasks[t].pc = "publishing"
    /\ IF locked(tasks[t].uri)
       THEN /\ tasks' = SetPc(t, "blocked")
            /\ thread' = "blocked"
            /\ UNCHANGED documents
       ELSE /\ documents' = handle_did_open(documents, tasks[t].uri, tasks[t].text,
                                             tasks[t].ok)
            /\ tasks' = SetPc(t, "done")
            /\ UNCHANGED thread
    /\ UNCHANGED locks
    /\ UNCHANGED <<workspace_roots, disk, phase, last, symVars>>

\* handle_did_change up to `publish_diagnostics(..).await`: `get_mut` takes
\* the shard's write lock, the change is applied, and the guard `doc` is
\* still alive when the handler suspends.
PollDidChange(t) ==
    /\ thread = "idle"
    /\ t \in 1..Len(tasks)
    /\ tasks[t].kind = "didChange" /\ tasks[t].pc = "new"
    /\ IF locked(tasks[t].uri)
       THEN /\ tasks' = SetPc(t, "blocked")
            /\ thread' = "blocked"
            /\ UNCHANGED <<documents, locks>>
       ELSE IF ~contains_key(documents, tasks[t].uri)
       THEN /\ tasks' = SetPc(t, "done")
            /\ UNCHANGED <<documents, locks, thread>>
       ELSE /\ locks' = lock(tasks[t].uri, t)
            /\ documents' = handle_did_change(documents, tasks[t].uri,
                               <<[range |-> None, text |-> tasks[t].text]>>,
                               <<tasks[t].ok>>).docs
            /\ tasks' = SetPc(t, "publishing")
            /\ UNCHANGED thread
    /\ UNCHANGED <<workspace_roots, disk, phase, last, symVars>>

\* handle_did_change after the await: the guard is dropped.
ResumeDidChange(t) ==
    /\ thread = "idle"
    /\ t \in 1..Len(tasks)
    /\ tasks[t].kind = "didChange" /\ tasks[t].pc = "publishing"
    /\ locks' = unlock(tasks[t].uri)
    /\ tasks' = SetPc(t, "done")
    /\ UNCHANGED <<documents, thread>>
    /\ UNCHANGED <<workspace_roots, disk, phase, last, symVars>>

\* handle_hover: `documents.get` takes the shard's read lock for the whole
\* (synchronous) query.
PollHover(t) ==
    /\ thread = "idle"
    /\ t \in 1..Len(tasks)
    /\ tasks[t].kind = "hover" /\ tasks[t].pc = "new"
    /\ IF locked(tasks[t].uri)
       THEN /\ tasks' = SetPc(t, "blocked")
            /\ thread' = "blocked"
       ELSE /\ tasks' = SetPc(t, "done")
            /\ UNCHANGED thread
    /\ UNCHANGED <<documents, locks>>
    /\ UNCHANGED <<workspace_roots, disk, phase, last, symVars>>

\* The executor polls handler t.
Poll(t) ==
    \/ PollDidOpen(t)
    \/ ResumeDidOpen(t)
    \/ PollDidChange(t)
    \/ ResumeDidChange(t)
    \/ PollHover(t)

NextConc ==
    \/ \E kind \in {"didOpen", "didChange"}, uri \in URIs, text \in StoreTexts,
          ok \in BOOLEAN : Receive(kind, uri, text, ok)
    \/ \E uri \in URIs : Receive("hover", uri, <<>>, TRUE)
    \/ \E t \in 1..MaxTasks : PollDidOpen(t)
    \/ \E t \in 1..MaxTasks : ResumeDidOpen(t)
    \/ \E t \in 1..MaxTasks : PollDidChange(t)
    \/ \E t \in 1..MaxTasks : ResumeDidChange(t)
    \/ \E t \in 1..MaxTasks : PollHover(t)

SpecConc == InitConc /\ [][NextConc]_vars

\* Fair scheduling: a handler that can be polled is polled.
FairConc == SpecConc /\ \A t \in 1..MaxTasks : WF_vars(Poll(t))

\* C6: under fair scheduling every handler invocation eventually returns; no
\* handler blocks forever on the lock of a document-map entry.
C6_EveryHandlerReturns ==
    \A t \in 1..MaxTasks : (Len(tasks) >= t) ~> (Len(tasks) >= t /\ tasks[t].pc = "done")

\* Handler t hands its diagnostics to the client in this step: it reaches
\* `publish_diagnostics(..).await`.
Publishes(t) ==
    /\ t \in 1..Len(tasks)
    /\ tasks[t].pc # "publishing"
    /\ tasks'[t].pc = "publishing"

\* The diagnostics handed over: those of the document the handler has just
\* built from its text (didOpen), or those the document of the map has after
\* the handler has parsed it again (didChange).
published(task) ==
    IF task.kind = "didOpen" THEN DocumentState_new(task.text, task.ok).some.diagnostics
    ELSE reparse_full(documents[task.uri], task.text, task.ok).diagnostics

\* C29: whenever diagnostics are published for a URI, the document map
\* holds at that moment a Document for that URI, and its diagnostics are the
\* published ones; for didOpen and didChange, under every interleaving of
\* the handlers.
C29_PublishedDiagnosticsAreInTheMap ==
    [][\A t \in 1..MaxTasks :
          Publishes(t) =>
              /\ contains_key(documents', tasks[t].uri)
              /\ documents'[tasks[t].uri].diagnostics = published(tasks[t])]_vars

-----------------------------------------------------------------------------
(* SpecSym: the symbol table and its queries *)

\* Most symbols (objects, members and locals together) in a table.
MaxSymbols == 4

\* A name is a sequence of characters; an identifier node is its kind and
\* its text as written in the source.
Quote == "\""

Identifier(text) == [kind |-> "identifier", text |-> text]
QuotedIdentifier(text) == [kind |-> "quoted_identifier", text |-> <<Quote>> \o text \o <<Quote>>]

\* str::to_lowercase on the letters of the model.
lower_char(c) == CASE c = "A" -> "a" [] c = "B" -> "b" [] OTHER -> c

to_lowercase_exact(name) == name

to_lowercase(name) == [i \in 1..Len(name) |-> lower_char(name[i])]

\* str::trim_matches(c): drop every leading and trailing c.
RECURSIVE trim_start_matches(_, _)
trim_start_matches(text, c) ==
    IF text # <<>> /\ Head(text) = c THEN trim_start_matches(Tail(text), c) ELSE text

RECURSIVE trim_end_matches(_, _)
trim_end_matches(text, c) ==
    IF text # <<>> /\ text[Len(text)] = c
    THEN trim_end_matches(SubSeq(text, 1, Len(text) - 1), c) ELSE text

trim_matches(text, c) == trim_end_matches(trim_start_matches(text, c), c)

\* The characters with the Unicode property White_Space: the blank, the tab,
\* the line feed, the carriage return, the form feed, and those a string
\* has no escape for, each written as its code point (U+000B is the vertical
\* tab).
VerticalTab == "U+000B"
White_Space ==
    {" ", "\t", "\n", "\r", "\f", VerticalTab, "U+0085", "U+00A0", "U+1680",
     "U+2000", "U+2001", "U+2002", "U+2003", "U+2004", "U+2005", "U+2006", "U+2007",
     "U+2008", "U+2009", "U+200A", "U+2028", "U+2029", "U+202F", "U+205F", "U+3000"}

\* char::is_whitespace.
is_whitespace(c) == c \in White_Space

\* str::trim_start, str::trim_end and str::trim: drop the white space at
\* the ends of a text.
RECURSIVE trim_start(_)
trim_start(text) ==
    IF text # <<>> /\ is_whitespace(Head(text)) THEN trim_start(Tail(text)) ELSE text

RECURSIVE trim_end(_)
trim_end(text) ==
    IF text # <<>> /\ is_whitespace(text[Len(text)])
    THEN trim_end(SubSeq(text, 1, Len(text) - 1)) ELSE text

trim(text) == trim_end(trim_start(text))

\* str::ends_with on the name of a node kind.
ends_with_suffix(kind, suffix) ==
    /\ Len(kind) >= Len(suffix)
    /\ SubSeq(kind, Len(kind) - Len(suffix) + 1, Len(kind)) = suffix

extract_name(node) ==
    IF node.kind = "quoted_identifier" THEN trim_matches(node.text, Quote) ELSE node.text

\* The name nodes of the members and locals, of the objects, and of the
\* references looked up.
DeclNodes == {Identifier(<<"a">>), QuotedIdentifier(<<"B">>)}
ObjectNodes == {QuotedIdentifier(<<"B">>)}
QueryNodes ==
    {Identifier(<<c>>) : c \in {"a", "A", "b", "B"}}
    \cup {QuotedIdentifier(<<c>>) : c \in {"a", "A", "b", "B"}}

\* A declaration of the source: its name node, its kind and the declarations
\* nested in it (members of an object, locals and parameters of a procedure).
Decl(node, kind, children) == [node |-> node, kind |-> kind, children |-> children]

RECURSIVE DeclSize(_)
DeclSize(decl) ==
    1 + (IF decl.children = <<>> THEN 0
         ELSE DeclSize(Head(decl.children))
              + DeclSize([decl EXCEPT !.children = Tail(decl.children)]) - 1)

\* The sequences of at most n locals.
RECURSIVE LocalSeqs(_)
LocalSeqs(n) ==
    IF n = 0 THEN {<<>>}
    ELSE LET shorter == LocalSeqs(n - 1)
         IN  shorter \cup {Append(q, Decl(d, "Variable", <<>>)) :
                              q \in {s \in shorter : Len(s) = n - 1}, d \in DeclNodes}

\* The members of at most n symbols: a variable, or a procedure with locals.
Members(n) ==
    {Decl(d, "Variable", <<>>) : d \in DeclNodes}
    \cup {Decl(d, "Procedure", ls) : d \in DeclNodes, ls \in LocalSeqs(n - 1)}

\* The member sequences of at most n symbols in all.
RECURSIVE MemberSeqs(_)
MemberSeqs(n) ==
    IF n = 0 THEN {<<>>}
    ELSE {<<>>} \cup UNION {{<<m>> \o rest : rest \in MemberSeqs(n - DeclSize(m))} :
                            m \in Members(n)}

Objects(n) == {Decl(d, "Object", ms) : d \in ObjectNodes, ms \in MemberSeqs(n - 1)}

\* The object sequences of at most n symbols in all.
RECURSIVE ObjectSeqs(_)
ObjectSeqs(n) ==
    IF n = 0 THEN {<<>>}
    ELSE {<<>>} \cup UNION {{<<obj>> \o rest : rest \in ObjectSeqs(n - DeclSize(obj))} :
                            obj \in Objects(n)}

\* The bytes a declaration spans: one byte of its own (keyword and name),
\* and each nested declaration followed by one byte (a separator, or the
\* closing token after the last).
RECURSIVE Width(_)
Width(decl) ==
    IF decl.children = <<>> THEN 1
    ELSE Width(Head(decl.children)) + 1 + Width([decl EXCEPT !.children = Tail(decl.children)])

\* The AlSymbol of a declaration that starts at byte `start`; end_byte is the
\* byte after its last (tree-sitter's Node::end_byte).  AlSymbols lays a
\* sequence of declarations out from `start`, `gap` bytes apart.
RECURSIVE AlSymbol(_, _), AlSymbols(_, _, _)
AlSymbol(decl, start) ==
    [name |-> extract_name(decl.node),
     kind |-> decl.kind,
     start_byte |-> start,
     end_byte |-> start + Width(decl),
     children |-> AlSymbols(decl.children, start + 1, 1)]

AlSymbols(decls, start, gap) ==
    IF decls = <<>> THEN <<>>
    ELSE <<AlSymbol(Head(decls), start)>>
         \o AlSymbols(Tail(decls), start + Width(Head(decls)) + gap, gap)

\* The gap between two top-level objects: `}` may be followed at once by the
\* next object's keyword.
ObjectGaps == {0, 1}

SymbolRef(object_idx, child_path) == [object_idx |-> object_idx, child_path |-> child_path]

EmptyIndex == [key \in {} |-> <<>>]

\* An indexer that leaves the nested symbols out.
insert_no_children(index, children, child_idx, object_idx, parent_path) == index

\* insert_into_index: push the symbol's reference under its lower-cased
\* name, then index its children (indices count from 1 here).
RECURSIVE insert_into_index(_, _, _, _), insert_children(_, _, _, _, _)
insert_into_index(index, sym, object_idx, parent_path) ==
    LET key     == to_lowercase(sym.name)
        sym_ref == SymbolRef(object_idx, parent_path)
    IN  Let(IF key \in DOMAIN index
            THEN [index EXCEPT ![key] = Append(@, sym_ref)]
            ELSE index @@ (key :> <<sym_ref>>),
            LAMBDA pushed :
                insert_children(pushed, sym.children, 1, object_idx, parent_path))

insert_children(index, children, child_idx, object_idx, parent_path) ==
    IF child_idx > Len(children) THEN index
    ELSE Let(insert_into_index(index, children[child_idx], object_idx,
                               Append(parent_path, child_idx)),
             LAMBDA next :
                 insert_children(next, children, child_idx + 1, object_idx,
                                 parent_path))

RECURSIVE index_symbols(_, _, _)
index_symbols(index, symbols, obj_idx) ==
    IF obj_idx > Len(symbols) THEN index
    ELSE Let(insert_into_index(index, symbols[obj_idx], obj_idx, <<>>),
             LAMBDA next : index_symbols(next, symbols, obj_idx + 1))

DocumentSymbolTable_new(symbols_of) ==
    Let(symbols_of, LAMBDA symbols :
        [symbols |-> symbols, index |-> index_symbols(EmptyIndex, symbols, 1)])

RECURSIVE descend(_, _)
descend(current, child_path) ==
    IF child_path = <<>> THEN current
    ELSE descend(current.children[Head(child_path)], Tail(child_path))

resolve_ref(self, sym_ref) == descend(self.symbols[sym_ref.object_idx], sym_ref.child_path)

lookup(self, name) ==
    LET key == to_lowercase(name)
    IN  IF key \in DOMAIN self.index
        THEN [i \in 1..Len(self.index[key]) |-> resolve_ref(self, self.index[key][i])]
        ELSE <<>>

\* `sym.start_byte <= scope_byte && scope_byte <= sym.end_byte`
spans(sym, byte) == sym.start_byte <= byte /\ byte <= sym.end_byte

named(syms, key) == SelectSeq(syms, LAMBDA s : to_lowercase(s.name) = key)

\* The loop over the children of an object in lookup_in_scope: the matching
\* locals of the first child that spans the byte and has any.
RECURSIVE scope_locals(_, _, _)
scope_locals(children, key, scope_byte) ==
    IF children = <<>> THEN <<>>
    ELSE IF spans(Head(children), scope_byte) /\ named(Head(children).children, key) # <<>>
    THEN named(Head(children).children, key)
    ELSE scope_locals(Tail(children), key, scope_byte)

\* The loop over the objects in lookup_in_scope.
RECURSIVE scope_results(_, _, _, _)
scope_results(self, symbols, name, scope_byte) ==
    IF symbols = <<>> THEN lookup(self, name)
    ELSE LET sym == Head(symbols)
             key == to_lowercase(name)
         IN  IF ~spans(sym, scope_byte) THEN scope_results(self, Tail(symbols), name, scope_byte)
             ELSE IF scope_locals(sym.children, key, scope_byte) # <<>>
             THEN scope_locals(sym.children, key, scope_byte)
             ELSE IF named(sym.children, key) # <<>> THEN named(sym.children, key)
             ELSE scope_results(self, Tail(symbols), name, scope_byte)

lookup_in_scope(self, name, scope_byte) == scope_results(self, self.symbols, name, scope_byte)

RECURSIVE Flatten(_)
Flatten(seqs) == IF seqs = <<>> THEN <<>> ELSE Head(seqs) \o Flatten(Tail(seqs))

\* The loop of reachable_symbols: for each object, its spanning children's
\* locals and its children when it spans the byte, and then the object.
RECURSIVE reachable_from(_, _)
reachable_from(symbols, byte_offset) ==
    IF symbols = <<>> THEN <<>>
    ELSE LET sym == Head(symbols)
             inside == IF spans(sym, byte_offset)
                       THEN Flatten([i \in 1..Len(sym.children) |->
                                       IF spans(sym.children[i], byte_offset)
                                       THEN sym.children[i].children ELSE <<>>])
                            \o sym.children
                       ELSE <<>>
         IN  inside \o <<sym>> \o reachable_from(Tail(symbols), byte_offset)

reachable_symbols(self, byte_offset) ==
    IF reachable_from(self.symbols, byte_offset) = <<>> THEN self.symbols
    ELSE reachable_from(self.symbols, byte_offset)

\* The tables of the model: the symbols of every source of at most
\* MaxSymbols declarations.
Tables ==
    {DocumentSymbolTable_new(AlSymbols(objs, 0, gap)) :
        objs \in ObjectSeqs(MaxSymbols), gap \in ObjectGaps}

\* The byte offsets queried: every byte of the source and one past its end.
Offsets(self) ==
    0..(IF self.symbols = <<>> THEN 1
        ELSE self.symbols[Len(self.symbols)].end_byte + 1)

NoQuery == [op |-> "none"]

Asked(op, node, offset, result) ==
    [op |-> op, node |-> node, name |-> extract_name(node), offset |-> offset,
     result |-> result]

InitSym ==
    /\ StoreInit
    /\ IdleConc
    /\ table \in Tables
    /\ query = NoQuery

\* One query on the table; the name looked up is that of an identifier node.
Lookup(node) ==
    /\ query = NoQuery
    /\ query' = Asked("lookup", node, 0, lookup(table, extract_name(node)))
    /\ UNCHANGED <<table, storeVars, concVars>>

LookupInScope(node, scope_byte) ==
    /\ query = NoQuery
    /\ query' = Asked("lookup_in_scope", node, scope_byte,
                      lookup_in_scope(table, extract_name(node), scope_byte))
    /\ UNCHANGED <<table, storeVars, concVars>>

ReachableSymbols(byte_offset) ==
    /\ query = NoQuery
    /\ query' = Asked("reachable_symbols", Identifier(<<>>), byte_offset,
                      reachable_symbols(table, byte_offset))
    /\ UNCHANGED <<table, storeVars, concVars>>

NextSym ==
    \/ \E node \in QueryNodes : Lookup(node)
    \/ \E node \in QueryNodes, scope_byte \in Offsets(table) : LookupInScope(node, scope_byte)
    \/ \E byte_offset \in Offsets(table) : ReachableSymbols(byte_offset)

SpecSym == InitSym /\ [][NextSym]_vars

\* The objects whose span holds the byte, their members whose span holds it,
\* and the declarations one layer below each.
ObjectsAt(byte) == SelectSeq(table.symbols, LAMBDA s : spans(s, byte))
ChildrenOf(syms) == Flatten([i \in 1..Len(syms) |-> syms[i].children])
ProceduresAt(byte) == SelectSeq(ChildrenOf(ObjectsAt(byte)), LAMBDA s : spans(s, byte))
SameName(syms, name) == SelectSeq(syms, LAMBDA s : to_lowercase(s.name) = to_lowercase(name))

\* C8: lookup_in_scope(name, o) returns the declarations of name in the
\* innermost scope containing o that declares it: all the matching locals
\* and parameters of the procedure containing o if there are any, otherwise
\* all the matching direct members of the object containing o, and
\* lookup(name) when neither layer has a match.
C8_InnermostScopeAllMatches ==
    query.op = "lookup_in_scope" =>
        LET locals  == SameName(ChildrenOf(ProceduresAt(query.offset)), query.name)
            members == SameName(ChildrenOf(ObjectsAt(query.offset)), query.name)
        IN  query.result = IF locals # <<>> THEN locals
                           ELSE IF members # <<>> THEN members
                           ELSE lookup(table, query.name)

\* Every symbol of the table, at any depth.
RECURSIVE SymbolsBelow(_)
SymbolsBelow(syms) ==
    IF syms = <<>> THEN {}
    ELSE {Head(syms)} \cup SymbolsBelow(Head(syms).children) \cup SymbolsBelow(Tail(syms))

swap_case(c) ==
    CASE c = "a" -> "A" [] c = "A" -> "a" [] c = "b" -> "B" [] c = "B" -> "b" [] OTHER -> c

\* The name with any of its letters in the other case.
Recasings(name) ==
    {m \in [1..Len(name) -> {"a", "A", "b", "B"}] :
        \A i \in 1..Len(name) : m[i] \in {name[i], swap_case(name[i])}}

\* The identifier nodes that write the name: bare or double-quoted, in any
\* casing.
WritingsOf(name) ==
    {Identifier(m) : m \in Recasings(name)} \cup {QuotedIdentifier(m) : m \in Recasings(name)}

\* C9: for every name n of a symbol of the table, lookup and lookup_in_scope
\* give for every re-casing of n, bare or double-quoted, the symbols they give
\* for n itself.
C9_CaseAndQuoteInvariant ==
    \A sym \in SymbolsBelow(table.symbols) :
        query.op \in {"lookup", "lookup_in_scope"} /\ query.node \in WritingsOf(sym.name) =>
            query.result = IF query.op = "lookup" THEN lookup(table, sym.name)
                           ELSE lookup_in_scope(table, sym.name, query.offset)

\* A name declared in one casing was looked up in scope double-quoted and in
\* the other casing, and found in a procedure's locals.
C9_Witness ==
    /\ query.op = "lookup_in_scope"
    /\ query.node.kind = "quoted_identifier"
    /\ query.result # <<>>
    /\ \A i \in 1..Len(query.result) : query.result[i].name # query.name
    /\ \E p \in 1..Len(ProceduresAt(query.offset)) :
          query.result = SameName(ProceduresAt(query.offset)[p].children, query.name)

\* C10: for an offset inside a procedure of object O, reachable_symbols
\* returns the locals and parameters of the procedure, then the direct
\* members of O, then O, in that order; for an offset outside every object it
\* returns exactly the top-level objects.
C10_LocalsMembersObject ==
    query.op = "reachable_symbols" =>
        /\ \A i \in 1..Len(table.symbols) :
              LET obj == table.symbols[i]
              IN  \A j \in 1..Len(obj.children) :
                      (obj.children[j].kind = "Procedure" /\ spans(obj.children[j], query.offset))
                          => query.result = obj.children[j].children \o obj.children \o <<obj>>
        /\ ObjectsAt(query.offset) = <<>> => query.result = table.symbols

\* C28: lookup_in_scope(name, o) never returns a variable or a parameter
\* that is a child of a procedure or trigger whose span does not contain o
\* (the span taken as the code takes it, its end byte included).
C28_NoLocalOfAnotherProcedure ==
    query.op = "lookup_in_scope" =>
        \A r \in 1..Len(query.result) :
            \A i \in 1..Len(table.symbols) :
                \A j \in 1..Len(table.symbols[i].children) :
                    LET procedure == table.symbols[i].children[j]
                    IN  (/\ query.result[r].kind \in {"Variable", "Parameter"}
                         /\ \E k \in 1..Len(procedure.children) :
                               procedure.children[k] = query.result[r])
                        => spans(procedure, query.offset)

\* The child paths of a symbol and of every symbol nested in it, in source
\* order (a symbol before its children, the children in their order).
RECURSIVE paths_below(_, _)
paths_below(sym, path) ==
    <<path>> \o Flatten([i \in 1..Len(sym.children) |->
                            paths_below(sym.children[i], Append(path, i))])

\* A reference to every symbol of the table, at any depth, in source order.
all_refs(self) ==
    Flatten([o \in 1..Len(self.symbols) |->
                LET paths == paths_below(self.symbols[o], <<>>)
                IN  [j \in 1..Len(paths) |-> SymbolRef(o, paths[j])]])

\* The lower-cased name of the symbol a reference leads to.
key_of(self, sym_ref) == to_lowercase(resolve_ref(self, sym_ref).name)

\* C24: the index of a table built by DocumentSymbolTable::new holds, under
\* each lower-cased name, the paths of all the symbols of that name at any
\* depth, once each and in source order; no other key is present, and every
\* stored path resolves to a symbol whose lower-cased name is the key.
C24_IndexHoldsEverySymbolOnce ==
    LET refs == all_refs(table)
    IN  /\ \A i \in 1..Len(refs) : key_of(table, refs[i]) \in DOMAIN table.index
        /\ \A key \in DOMAIN table.index :
              /\ table.index[key] # <<>>
              /\ table.index[key] = SelectSeq(refs, LAMBDA r : key_of(table, r) = key)
              /\ \A i \in 1..Len(table.index[key]) :
                    key_of(table, table.index[key][i]) = key

\* A table with one name, written in upper case, declared three times at
\* three depths: an object, a member that is not its first, and a local.
C24_Witness ==
    \E key \in DOMAIN table.index :
        /\ Len(table.index[key]) >= 3
        /\ \E i, j, k \in 1..Len(table.index[key]) :
              /\ table.index[key][i].child_path = <<>>
              /\ Len(table.index[key][j].child_path) = 1
              /\ table.index[key][j].child_path # <<1>>
              /\ Len(table.index[key][k].child_path) = 2
        /\ key # resolve_ref(table, table.index[key][1]).name

-----------------------------------------------------------------------------
(* SpecNav: navigation over the syntax trees of the loaded documents *)

\* A source file, as the parser reads it: object declarations, each with a
\* name, the interfaces after `implements`, and its members; a member is a
\* var section or a procedure (or trigger) with parameters, local variables
\* and the calls of its body.  A type is the text of its type node.
TypeInteger == <<"Integer">>
TypeOf(prefix, node) == <<prefix, " ">> \o node.text

Local(node, type) == [node |-> node, type |-> type]
FunctionCall(name) == [kind |-> "function_call", name |-> name]
MethodCall(object, method) == [kind |-> "method_call", object |-> object, method |-> method]
VarSection(decls) == [kind |-> "var_section", vars |-> decls]
Procedure(kind, node, parameters, locals, body) ==
    [kind |-> kind, node |-> node, parameters |-> parameters, vars |-> locals,
     body |-> body]
ObjectDecl(kind, node, interfaces, members) ==
    [kind |-> kind, node |-> node, interfaces |-> interfaces, members |-> members]

\* A node of the tree-sitter tree.  Only named nodes are kept: the anonymous
\* tokens (keywords and punctuation) are leaves that take up bytes and hold no
\* named node.  Every token and every blank between two words is one byte.
TsNode(kind, field, text, start, end, children) ==
    [kind |-> kind, field |-> field, text |-> text, start_byte |-> start,
     end_byte |-> end, children |-> children]

name_node(node, field, start) ==
    TsNode(node.kind, field, node.text, start, start + Len(node.text), <<>>)

last_end(children, otherwise) ==
    IF children = <<>> THEN otherwise ELSE children[Len(children)].end_byte

\* `Name:Type`
typed_name(kind, local, start, closing) ==
    Let(name_node(local.node, "name", start), LAMBDA name :
    Let(TsNode("type", "type", local.type, name.end_byte + 1,
               name.end_byte + 1 + Len(local.type), <<>>), LAMBDA type :
        TsNode(kind, "", <<>>, start, type.end_byte + closing, <<name, type>>)))

\* `(Name:Type;Name:Type)`
RECURSIVE parameter_nodes(_, _)
parameter_nodes(locals, start) ==
    IF locals = <<>> THEN <<>>
    ELSE Let(typed_name("parameter", Head(locals), start, 0), LAMBDA p :
             <<p>> \o parameter_nodes(Tail(locals), p.end_byte + 1))

parameter_list(locals, start) ==
    Let(parameter_nodes(locals, start + 1), LAMBDA ps :
        TsNode("parameter_list", "parameters", <<>>, start,
               last_end(ps, start + 1) + 1, ps))

\* `var Name:Type; Name:Type;`
RECURSIVE variable_nodes(_, _)
variable_nodes(locals, start) ==
    IF locals = <<>> THEN <<>>
    ELSE Let(typed_name("variable_declaration", Head(locals), start, 1), LAMBDA v :
             <<v>> \o variable_nodes(Tail(locals), v.end_byte + 1))

var_section(locals, field, start) ==
    Let(variable_nodes(locals, start + 2), LAMBDA vs :
        TsNode("var_section", field, <<>>, start, last_end(vs, start + 1), vs))

\* `Name();` and `Object.Method();`
statement_node(stmt, start) ==
    IF stmt.kind = "function_call"
    THEN Let(name_node(stmt.name, "name", start), LAMBDA name :
             TsNode("function_call", "", <<>>, start, name.end_byte + 2, <<name>>))
    ELSE Let(name_node(stmt.object, "object", start), LAMBDA object :
         Let(name_node(stmt.method, "method", object.end_byte + 1), LAMBDA method :
             TsNode("method_call", "", <<>>, start, method.end_byte + 2,
                    <<object, method>>)))

RECURSIVE statement_nodes(_, _)
statement_nodes(stmts, start) ==
    IF stmts = <<>> THEN <<>>
    ELSE Let(statement_node(Head(stmts), start), LAMBDA s :
             <<s>> \o statement_nodes(Tail(stmts), s.end_byte + 2))

\* `begin Statement; Statement; end`
code_block(stmts, start) ==
    Let(statement_nodes(stmts, start + 2), LAMBDA ss :
        TsNode("code_block", "body", <<>>, start, last_end(ss, start) + 3, ss))

\* `procedure Name(Parameters) var Locals begin Statements end;`
procedure_node(proc, start) ==
    Let(name_node(proc.node, "name", start + 2), LAMBDA name :
    Let(parameter_list(proc.parameters, name.end_byte), LAMBDA params :
    Let(IF proc.vars = <<>> THEN <<>>
        ELSE <<var_section(proc.vars, "vars", params.end_byte + 1)>>, LAMBDA locals :
    Let(code_block(proc.body, last_end(locals, params.end_byte) + 1), LAMBDA body :
        TsNode(proc.kind, "", <<>>, start, body.end_byte + 1,
               <<name, params>> \o locals \o <<body>>)))))

member_node(member, start) ==
    IF member.kind = "var_section" THEN var_section(member.vars, "", start)
    ELSE procedure_node(member, start)

RECURSIVE member_nodes(_, _)
member_nodes(members, start) ==
    IF members = <<>> THEN <<>>
    ELSE Let(member_node(Head(members), start), LAMBDA m :
             <<m>> \o member_nodes(Tail(members), m.end_byte + 1))

\* ` implements Name, Name`
RECURSIVE interface_nodes(_, _)
interface_nodes(interfaces, start) ==
    IF interfaces = <<>> THEN <<>>
    ELSE Let(name_node(Head(interfaces), "interface", start + 2), LAMBDA i :
             <<i>> \o interface_nodes(Tail(interfaces), i.end_byte))

\* `codeunit Name implements Name { Members }`
object_node(object, start) ==
    Let(name_node(object.node, "", start + 2), LAMBDA name :
    Let(interface_nodes(object.interfaces, name.end_byte), LAMBDA ifaces :
    Let(member_nodes(object.members, last_end(ifaces, name.end_byte) + 3),
        LAMBDA members :
        TsNode(object.kind, "", <<>>, start,
               last_end(members, last_end(ifaces, name.end_byte) + 2) + 2,
               <<name>> \o ifaces \o members))))

RECURSIVE object_nodes(_, _)
object_nodes(objects, start) ==
    IF objects = <<>> THEN <<>>
    ELSE Let(object_node(Head(objects), start), LAMBDA o :
             <<o>> \o object_nodes(Tail(objects), o.end_byte + 1))

\* al_parser::parse: the tree of a source; its root is the source_file.
al_parser_parse(source) ==
    Let(object_nodes(source, 0), LAMBDA objects :
        TsNode("source_file", "", <<>>, 0, last_end(objects, 0), objects))

\* Node::child_by_field_name and the test of the object kinds.
with_field(node, field) == SelectSeq(node.children, LAMBDA c : c.field = field)
child_by_field_name(node, field) ==
    IF with_field(node, field) = <<>> THEN None ELSE Some(with_field(node, field)[1])

is_identifier(node) == node.kind \in {"identifier", "quoted_identifier"}

\* AlObjectKind::from_node_kind.
from_node_kind(kind) ==
    CASE kind = "table_declaration" -> Some("Table")
      [] kind = "table_extension_declaration" -> Some("TableExtension")
      [] kind = "page_declaration" -> Some("Page")
      [] kind = "page_extension_declaration" -> Some("PageExtension")
      [] kind = "codeunit_declaration" -> Some("Codeunit")
      [] kind = "report_declaration" -> Some("Report")
      [] kind = "enum_declaration" -> Some("Enum")
      [] kind = "enum_extension_declaration" -> Some("EnumExtension")
      [] kind = "xmlport_declaration" -> Some("Xmlport")
      [] kind = "query_declaration" -> Some("Query")
      [] kind = "interface_declaration" -> Some("Interface")
      [] kind = "permissionset_declaration" -> Some("PermissionSet")
      [] kind = "controladdin_declaration" -> Some("ControlAddin")
      [] OTHER -> None

\* AlObjectKind::label.
label(kind) ==
    CASE kind = "Table" -> "table"
      [] kind = "TableExtension" -> "tableextension"
      [] kind = "Page" -> "page"
      [] kind = "PageExtension" -> "pageextension"
      [] kind = "Codeunit" -> "codeunit"
      [] kind = "Report" -> "report"
      [] kind = "Enum" -> "enum"
      [] kind = "EnumExtension" -> "enumextension"
      [] kind = "Xmlport" -> "xmlport"
      [] kind = "Query" -> "query"
      [] kind = "Interface" -> "interface"
      [] kind = "PermissionSet" -> "permissionset"
      [] kind = "ControlAddin" -> "controladdin"

\* The AlSymbol of a declaration node.  name_start and name_end are the
\* span of its name node; implements is filled for objects only.
Symbol(name, kind, object_kind, type_info, node, name_at, children, implements) ==
    [name |-> name, kind |-> kind, object_kind |-> object_kind,
     type_info |-> type_info, start_byte |-> node.start_byte,
     end_byte |-> node.end_byte, name_start |-> name_at.start_byte,
     name_end |-> name_at.end_byte, children |-> children,
     implements |-> implements]

\* The loop of extract_var_symbols, extract_parameter_symbols: one symbol for
\* each child of the wanted kind that has a name.
typed_symbols(node, child_kind, kind) ==
    LET wanted == SelectSeq(node.children,
                            LAMBDA c : c.kind = child_kind
                                       /\ child_by_field_name(c, "name") # None)
    IN  [i \in 1..Len(wanted) |->
            LET name_at == child_by_field_name(wanted[i], "name").some
                type    == child_by_field_name(wanted[i], "type")
            IN  Symbol(extract_name(name_at), kind, "",
                       IF type = None THEN None ELSE Some(type.some.text),
                       wanted[i], name_at, <<>>, <<>>)]

extract_var_symbols(node) == typed_symbols(node, "variable_declaration", "Variable")
extract_parameter_symbols(node) == typed_symbols(node, "parameter", "Parameter")

field_symbols(node, field, kind) ==
    IF child_by_field_name(node, field) = None THEN <<>>
    ELSE IF kind = "Parameter"
    THEN extract_parameter_symbols(child_by_field_name(node, field).some)
    ELSE extract_var_symbols(child_by_field_name(node, field).some)

\* The loop of extract_field_symbols: as for the variables.
extract_field_symbols(node) == typed_symbols(node, "field_declaration", "Field")

\* The loop of extract_key_symbols: a key has no type.
extract_key_symbols(node) ==
    LET wanted == SelectSeq(node.children,
                            LAMBDA c : c.kind = "key_declaration"
                                       /\ child_by_field_name(c, "name") # None)
    IN  [i \in 1..Len(wanted) |->
            LET name_at == child_by_field_name(wanted[i], "name").some
            IN  Symbol(extract_name(name_at), "Key", "", None, wanted[i], name_at,
                       <<>>, <<>>)]

extract_enum_value_symbol(node) ==
    IF child_by_field_name(node, "name") = None THEN <<>>
    ELSE LET name_at == child_by_field_name(node, "name").some
         IN  <<Symbol(extract_name(name_at), "EnumValue", "", None, node, name_at,
                      <<>>, <<>>)>>

\* The text of the return_type node without its colons in front and the
\* white space around.
return_type_info(node) ==
    IF child_by_field_name(node, "return_type") = None THEN None
    ELSE Some(trim(trim_start_matches(child_by_field_name(node, "return_type").some.text,
                                      ":")))

extract_procedure_symbol(node) ==
    IF child_by_field_name(node, "name") = None THEN <<>>
    ELSE LET name_at == child_by_field_name(node, "name").some
         IN  <<Symbol(extract_name(name_at), "Procedure", "", return_type_info(node),
                      node, name_at,
                      field_symbols(node, "parameters", "Parameter")
                      \o field_symbols(node, "vars", "Variable"), <<>>)>>

extract_trigger_symbol(node) ==
    IF child_by_field_name(node, "name") = None THEN <<>>
    ELSE LET name_at == child_by_field_name(node, "name").some
         IN  <<Symbol(extract_name(name_at), "Trigger", "", None, node, name_at,
                      field_symbols(node, "vars", "Variable"), <<>>)>>

extract_children_symbols(node) ==
    Flatten([i \in 1..Len(node.children) |->
        LET child == node.children[i]
        IN  CASE child.kind = "procedure_declaration" -> extract_procedure_symbol(child)
              [] child.kind = "trigger_declaration" -> extract_trigger_symbol(child)
              [] child.kind = "var_section" -> extract_var_symbols(child)
              [] child.kind = "fields_section" -> extract_field_symbols(child)
              [] child.kind = "keys_section" -> extract_key_symbols(child)
              [] child.kind = "enum_value_declaration" -> extract_enum_value_symbol(child)
              [] OTHER -> <<>>])

\* The names after `implements`, read as the name of any identifier is.
implements_of(node) ==
    LET named_there == with_field(node, "interface")
    IN  [i \in 1..Len(named_there) |-> extract_name(named_there[i])]

find_object_name(node) ==
    LET names == SelectSeq(node.children, is_identifier)
    IN  IF names = <<>> THEN None ELSE Some(names[1])

extract_object_symbol(node, kind) ==
    IF find_object_name(node) = None THEN <<>>
    ELSE LET name_at == find_object_name(node).some
         IN  <<Symbol(extract_name(name_at), "Object", kind,
                      Some(<<label(kind)>>), node, name_at,
                      extract_children_symbols(node), implements_of(node))>>

extract_tree_symbols(tree) ==
    Flatten([i \in 1..Len(tree.children) |->
        IF from_node_kind(tree.children[i].kind) = None THEN <<>>
        ELSE extract_object_symbol(tree.children[i],
                                   from_node_kind(tree.children[i].kind).some)])

\* DocumentState::new on a source that parses.
NavDocument(source) ==
    Let(al_parser_parse(source), LAMBDA tree :
        [rope |-> source, tree |-> tree,
         symbol_table |-> DocumentSymbolTable_new(extract_tree_symbols(tree))])

\* A node together with its parent (Node::parent); the root has none.
At(node, parent) == [node |-> node, parent |-> parent]

within(node, byte_offset) == node.start_byte <= byte_offset /\ byte_offset <= node.end_byte

\* find_deepest_named_node: the first child that holds the offset and gives a
\* node, else the node itself.  The second loop, over the anonymous children,
\* finds nothing: a token holds no named node.
RECURSIVE find_deepest_named_node(_, _, _), first_deeper(_, _, _)
find_deepest_named_node(node, parent, byte_offset) ==
    IF byte_offset < node.start_byte \/ byte_offset > node.end_byte THEN None
    ELSE LET deeper == first_deeper(node.children, node, byte_offset)
         IN  IF deeper # None THEN deeper ELSE Some(At(node, parent))

first_deeper(children, parent, byte_offset) ==
    IF children = <<>> THEN None
    ELSE LET found == IF within(Head(children), byte_offset)
                      THEN find_deepest_named_node(Head(children), Some(parent),
                                                   byte_offset)
                      ELSE None
         IN  IF found # None THEN found
             ELSE first_deeper(Tail(children), parent, byte_offset)

node_at_offset(tree, byte_offset) == find_deepest_named_node(tree, None, byte_offset)

\* parent_kind.ends_with("_declaration"), on any kind of node.
ends_with_declaration(kind) == ends_with_suffix(kind, "_declaration")

is_definition_node(at) ==
    IF at.parent = None THEN FALSE
    ELSE LET parent  == at.parent.some
             is_decl == parent.kind \in {"variable_declaration", "parameter",
                                         "procedure_declaration", "trigger_declaration",
                                         "field_declaration", "key_declaration",
                                         "enum_value_declaration", "interface_method"}
                        \/ ends_with_declaration(parent.kind)
         IN  IF ~is_decl THEN FALSE
             ELSE IF child_by_field_name(parent, "name") # None
             THEN child_by_field_name(parent, "name").some = at.node
             ELSE IF ends_with_declaration(parent.kind)
                     /\ SelectSeq(parent.children, is_identifier) # <<>>
             THEN SelectSeq(parent.children, is_identifier)[1] = at.node
             ELSE FALSE

first_of(results) == IF results = <<>> THEN None ELSE Some(results[1])

\* resolve_at_offset: the first scoped result for the identifier under the
\* cursor, unless that symbol's span is the identifier's own span.
resolve_at_offset(tree, symbol_table, byte_offset) ==
    LET at == node_at_offset(tree, byte_offset)
    IN  IF at = None \/ ~is_identifier(at.some.node) THEN None
        ELSE LET node   == at.some.node
                 name   == extract_name(node)
                 symbol == first_of(lookup_in_scope(symbol_table, name, byte_offset))
             IN  IF symbol = None THEN None
                 ELSE IF symbol.some.start_byte = node.start_byte
                         /\ symbol.some.end_byte = node.end_byte
                 THEN None
                 ELSE Some([symbol |-> symbol.some, name |-> name])

identifier_context_at_offset(tree, symbol_table, byte_offset) ==
    LET at == node_at_offset(tree, byte_offset)
    IN  IF at = None \/ ~is_identifier(at.some.node) THEN None
        ELSE Some([node |-> at.some.node,
                   name |-> extract_name(at.some.node),
                   symbol |-> first_of(lookup_in_scope(symbol_table,
                                                       extract_name(at.some.node),
                                                       byte_offset)),
                   is_definition |-> is_definition_node(at.some)])

\* collect_identifier_nodes: the identifiers of that lower-cased name, in
\* the order of a pre-order walk.
RECURSIVE collect_identifier_nodes(_, _, _)
collect_identifier_nodes(node, parent, target_name_lower) ==
    (IF is_identifier(node) /\ to_lowercase(extract_name(node)) = target_name_lower
     THEN <<At(node, parent)>> ELSE <<>>)
    \o Flatten([i \in 1..Len(node.children) |->
                  collect_identifier_nodes(node.children[i], Some(node), target_name_lower)])

Range(start, end) == [start |-> start, end |-> end]
node_range(node) == Range(node.start_byte, node.end_byte)

\* reference_of without the include_declaration flag.
reference_of_any_flag(at, symbol_table, target, include_declaration) ==
    IF is_definition_node(at)
    THEN IF at.parent # None
            /\ at.parent.some.start_byte = target.start_byte
            /\ at.parent.some.end_byte = target.end_byte
         THEN <<node_range(at.node)>> ELSE <<>>
    ELSE LET resolved == first_of(lookup_in_scope(symbol_table, extract_name(at.node),
                                                  at.node.start_byte))
         IN  IF resolved # None
                /\ resolved.some.start_byte = target.start_byte
                /\ resolved.some.end_byte = target.end_byte
             THEN <<node_range(at.node)>> ELSE <<>>

\* The callback of find_all_references on one candidate: its range, or nothing.
reference_of(at, symbol_table, target, include_declaration) ==
    IF is_definition_node(at)
    THEN IF at.parent # None
            /\ at.parent.some.start_byte = target.start_byte
            /\ at.parent.some.end_byte = target.end_byte
            /\ include_declaration
         THEN <<node_range(at.node)>> ELSE <<>>
    ELSE LET resolved == first_of(lookup_in_scope(symbol_table, extract_name(at.node),
                                                  at.node.start_byte))
         IN  IF resolved # None
                /\ resolved.some.start_byte = target.start_byte
                /\ resolved.some.end_byte = target.end_byte
             THEN <<node_range(at.node)>> ELSE <<>>

find_all_references(tree, symbol_table, byte_offset, include_declaration) ==
    LET ctx == identifier_context_at_offset(tree, symbol_table, byte_offset)
    IN  IF ctx = None \/ ctx.some.symbol = None THEN <<>>
        ELSE LET target == ctx.some.symbol.some
                 found  == collect_identifier_nodes(tree, None, to_lowercase(ctx.some.name))
             IN  Flatten([i \in 1..Len(found) |->
                            reference_of(found[i], symbol_table, target,
                                         include_declaration)])

\* The Procedure children, in order, of the objects that pass `Object`,
\* themselves passing `Child`: the nested loops of the *_at and find_*
\* queries of the symbol table, which return at the first or collect all.
procedures_where(self, Object(_), Child(_)) ==
    Flatten([i \in 1..Len(self.symbols) |->
        IF ~Object(self.symbols[i]) THEN <<>>
        ELSE LET procs == SelectSeq(self.symbols[i].children,
                                    LAMBDA c : c.kind = "Procedure" /\ Child(c))
             IN  [j \in 1..Len(procs) |-> [object |-> self.symbols[i], child |-> procs[j]]]])

is_interface(sym) == sym.kind = "Object" /\ sym.object_kind = "Interface"
same_name(a, b) == to_lowercase(a) = to_lowercase(b)

interface_method_at(self, byte_offset) ==
    LET hits == procedures_where(self,
                    LAMBDA s : is_interface(s) /\ spans(s, byte_offset),
                    LAMBDA c : spans(c, byte_offset))
    IN  IF hits = <<>> THEN None ELSE Some(<<hits[1].object.name, hits[1].child.name>>)

\* find_implementation_procedures comparing the interface name as written.
find_implementation_procedures_exact(self, interface_name, method_name) ==
    LET hits == procedures_where(self,
                    LAMBDA s : \E k \in 1..Len(s.implements) :
                                   s.implements[k] = interface_name,
                    LAMBDA c : same_name(c.name, method_name))
    IN  [i \in 1..Len(hits) |-> hits[i].child]

find_implementation_procedures(self, interface_name, method_name) ==
    LET hits == procedures_where(self,
                    LAMBDA s : \E k \in 1..Len(s.implements) :
                                   same_name(s.implements[k], interface_name),
                    LAMBDA c : same_name(c.name, method_name))
    IN  [i \in 1..Len(hits) |-> hits[i].child]

implementation_procedure_at(self, byte_offset) ==
    LET hits == procedures_where(self,
                    LAMBDA s : s.implements # <<>> /\ spans(s, byte_offset),
                    LAMBDA c : spans(c, byte_offset))
    IN  IF hits = <<>> THEN None ELSE Some(<<hits[1].object.implements, hits[1].child.name>>)

codeunit_procedure_at(self, byte_offset) ==
    LET hits == procedures_where(self,
                    LAMBDA s : ~is_interface(s) /\ spans(s, byte_offset),
                    LAMBDA c : spans(c, byte_offset))
    IN  IF hits = <<>> THEN None ELSE Some(<<hits[1].object.name, hits[1].child.name>>)

find_object_procedure(self, object_name, procedure_name) ==
    LET hits == procedures_where(self,
                    LAMBDA s : s.kind = "Object" /\ same_name(s.name, object_name),
                    LAMBDA c : same_name(c.name, procedure_name))
    IN  IF hits = <<>> THEN None ELSE Some(hits[1].child)

find_interface_method(self, interface_name, method_name) ==
    LET hits == procedures_where(self,
                    LAMBDA s : is_interface(s) /\ same_name(s.name, interface_name),
                    LAMBDA c : same_name(c.name, method_name))
    IN  IF hits = <<>> THEN None ELSE Some(hits[1].child)

\* state.documents.iter(): the loaded documents, in the order of this run.
entries(docs) == SelectSeq(locks.order, LAMBDA u : docs[u] # NoDoc)

Location(uri, range) == [uri |-> uri, range |-> range]
symbol_range(sym) == Range(sym.start_byte, sym.end_byte)
name_range(sym) == Range(sym.name_start, sym.name_end)

\* The loop over every document and every interface name that collects the
\* interface method of that name.
interface_methods(docs, iface_names, method_name) ==
    Flatten([e \in 1..Len(entries(docs)) |->
        Flatten([k \in 1..Len(iface_names) |->
            LET method_sym == find_interface_method(docs[entries(docs)[e]].symbol_table,
                                                    iface_names[k], method_name)
            IN  IF method_sym = None THEN <<>>
                ELSE <<[uri |-> entries(docs)[e], symbol |-> method_sym.some]>>])])

located(found, Span(_)) ==
    [i \in 1..Len(found) |-> Location(found[i].uri, Span(found[i].symbol))]

\* The gate left open: every cursor counts as on a procedure.
cursor_on_anything(doc, byte_offset) == TRUE

cursor_on_procedure(doc, byte_offset) ==
    LET ctx == identifier_context_at_offset(doc.tree, doc.symbol_table, byte_offset)
    IN  ctx # None /\ ctx.some.symbol # None /\ ctx.some.symbol.some.kind = "Procedure"

\* The tail of handle_goto_definition: scoped resolution in the document.
goto_resolved(doc, uri, byte_offset) ==
    LET resolved == resolve_at_offset(doc.tree, doc.symbol_table, byte_offset)
    IN  IF resolved = None THEN None
        ELSE Some(<<Location(uri, symbol_range(resolved.some.symbol))>>)

\* handle_goto_definition.  The sources of the model are one line long, so
\* the position's character is the byte offset.  The reply is None or the
\* list of locations (a Scalar reply is a list of one).
handle_goto_definition(docs, uri, byte_offset) ==
    IF docs[uri] = NoDoc THEN None
    ELSE LET doc  == docs[uri]
             impl == implementation_procedure_at(doc.symbol_table, byte_offset)
         IN  IF cursor_on_procedure(doc, byte_offset) /\ impl # None
             THEN LET locations == located(interface_methods(docs, impl.some[1], impl.some[2]),
                                           symbol_range)
                  IN  IF locations # <<>> THEN Some(locations)
                      ELSE goto_resolved(doc, uri, byte_offset)
             ELSE goto_resolved(doc, uri, byte_offset)

handle_goto_implementation(docs, uri, byte_offset) ==
    IF docs[uri] = NoDoc THEN None
    ELSE LET method == interface_method_at(docs[uri].symbol_table, byte_offset)
         IN  IF method = None THEN None
             ELSE LET locations ==
                          Flatten([e \in 1..Len(entries(docs)) |->
                              LET impls == find_implementation_procedures(
                                               docs[entries(docs)[e]].symbol_table,
                                               method.some[1], method.some[2])
                              IN  [i \in 1..Len(impls) |->
                                     Location(entries(docs)[e], symbol_range(impls[i]))]])
                  IN  IF locations = <<>> THEN None ELSE Some(locations)

\* The names of the sources: `a`, `"B"` (also written `b`), `c`, `e` and `f`.
NameA == Identifier(<<"a">>)
NameB == QuotedIdentifier(<<"B">>)
NameC == Identifier(<<"c">>)
NameE == Identifier(<<"e">>)
NameF == Identifier(<<"f">>)

\* The procedures named `a`: with or without a parameter of their own name,
\* and with an empty body, a call of `a`, or a call of `a` through a local
\* variable typed as the interface "B".
NavProcedures ==
    {Procedure("procedure_declaration", NameA, parameters, shape[1], shape[2]) :
        parameters \in {<<>>, <<Local(NameA, TypeInteger)>>},
        shape \in {<< <<>>, <<>> >>,
                   << <<>>, <<FunctionCall(NameA)>> >>,
                   << <<Local(NameB, TypeOf("Interface", NameB))>>,
                      <<MethodCall(NameB, NameA)>> >>}}

NavTriggers ==
    {Procedure("trigger_declaration", NameA, <<>>, locals, <<>>) :
        locals \in {<<>>, <<Local(NameA, TypeInteger)>>}}

InterfaceB ==
    ObjectDecl("interface_declaration", NameB, <<>>,
               <<Procedure("procedure_declaration", NameA, <<>>, <<>>, <<>>)>>)

PlainE ==
    ObjectDecl("codeunit_declaration", NameE, <<>>,
               <<Procedure("procedure_declaration", NameA, <<>>, <<>>, <<>>)>>)

\* The codeunits: `c` with one procedure, implementing "B" (written `b`) or
\* nothing, and `a` with a trigger or a procedure of its own name.
NavCodeunits ==
    {ObjectDecl("codeunit_declaration", NameC, interfaces, <<proc>>) :
        interfaces \in {<<>>, <<Identifier(<<"b">>)>>}, proc \in NavProcedures}
    \cup {ObjectDecl("codeunit_declaration", NameA, <<>>, <<member>>) :
            member \in NavTriggers
                       \cup {Procedure("procedure_declaration", NameA, <<>>, <<>>, <<>>)}}

\* The codeunit `c` with two procedures, `a` and `e`, where `e` calls `a`.
CallerC ==
    ObjectDecl("codeunit_declaration", NameC, <<>>,
               <<Procedure("procedure_declaration", NameA, <<>>, <<>>, <<>>),
                 Procedure("procedure_declaration", NameE, <<>>, <<>>,
                           <<FunctionCall(NameA)>>)>>)

\* The first document: a codeunit, alone or after the interface or after
\* another codeunit with a procedure of the same name, or the codeunit with
\* two procedures.  The second document: none, the interface, a caller
\* through the interface, or an implementation.
FirstSources == {before \o <<unit>> : before \in {<<>>, <<InterfaceB>>, <<PlainE>>},
                                      unit \in NavCodeunits}
                \cup {<<CallerC>>}
SecondSources ==
    {<<InterfaceB>>,
     <<ObjectDecl("codeunit_declaration", NameA, <<>>,
                  <<Procedure("procedure_declaration", NameC, <<>>,
                              <<Local(NameB, TypeOf("Interface", NameB))>>,
                              <<MethodCall(NameB, NameA)>>)>>)>>,
     <<ObjectDecl("codeunit_declaration", NameF, <<NameB>>,
                  <<Procedure("procedure_declaration", NameA, <<>>, <<>>, <<>>)>>)>>}

FirstUri == UriOrder[1]
SecondUri == UriOrder[2]

NavWorkspaces ==
    {[u \in URIs |-> IF u = FirstUri THEN NavDocument(first) ELSE second] :
        first \in FirstSources,
        second \in {NoDoc} \cup {NavDocument(s) : s \in SecondSources}}

\* The byte offsets a request can carry for a document: every byte of its
\* source, and one past it.
CursorOffsets(doc) == IF doc = NoDoc THEN {0} ELSE 0..(doc.tree.end_byte + 1)

Request(op, uri, byte_offset, argument, result) ==
    [op |-> op, uri |-> uri, offset |-> byte_offset, argument |-> argument,
     result |-> result]

InitNav ==
    /\ documents \in NavWorkspaces
    /\ workspace_roots = <<>>
    /\ disk = [p \in Paths |-> NoFile]
    /\ phase = "running"
    /\ last = Unhandled
    /\ tasks = <<>>
    /\ locks \in Unwalked
    /\ thread = "idle"
    /\ table = <<>>
    /\ query = NoQuery

GotoDefinition(uri, byte_offset) ==
    /\ query = NoQuery
    /\ query' = Request("goto_definition", uri, byte_offset, <<>>,
                        handle_goto_definition(documents, uri, byte_offset))
    /\ UNCHANGED <<table, storeVars, concVars>>

GotoImplementation(uri, byte_offset) ==
    /\ query = NoQuery
    /\ query' = Request("goto_implementation", uri, byte_offset, <<>>,
                        handle_goto_implementation(documents, uri, byte_offset))
    /\ UNCHANGED <<table, storeVars, concVars>>


\* The loaded documents, their objects and the procedures of an object.
Loaded == {u \in URIs : documents[u] # NoDoc}
ObjectsOf(u) == documents[u].symbol_table.symbols
Elements(seq) == {seq[i] : i \in 1..Len(seq)}
ProceduresOf(object) == {m \in Elements(object.children) : m.kind = "Procedure"}
OnName(sym, byte_offset) == sym.name_start <= byte_offset /\ byte_offset <= sym.name_end
Implements(object, interface) ==
    \E k \in 1..Len(object.implements) : same_name(object.implements[k], interface.name)
Locations(result) == IF result = None THEN {} ELSE Elements(result.some)

\* C11: with the cursor on the name of a procedure P of an object that
\* implements interfaces, go-to-definition returns the location of the method
\* named P of every implemented interface declared in a loaded document; and
\* with the cursor on the name of such an interface method, go-to-
\* implementation returns a location for P.
C11_DefinitionAndImplementationFanOut ==
    \A u \in Loaded : \A object \in Elements(ObjectsOf(u)) : \A p \in ProceduresOf(object) :
    \A v \in Loaded : \A interface \in Elements(ObjectsOf(v)) :
    \A method \in ProceduresOf(interface) :
        (/\ object.implements # <<>>
         /\ is_interface(interface)
         /\ Implements(object, interface)
         /\ same_name(method.name, p.name))
        => /\ (query.op = "goto_definition" /\ query.uri = u /\ OnName(p, query.offset))
                => Location(v, symbol_range(method)) \in Locations(query.result)
           /\ (query.op = "goto_implementation" /\ query.uri = v
               /\ OnName(method, query.offset))
                => Location(u, symbol_range(p)) \in Locations(query.result)

SymbolsOf(u) == SymbolsBelow(ObjectsOf(u))

\* What the interface fan-out of go-to-definition finds for a cursor.
FanOut(u, byte_offset) ==
    LET impl == implementation_procedure_at(documents[u].symbol_table, byte_offset)
    IN  IF cursor_on_procedure(documents[u], byte_offset) /\ impl # None
        THEN interface_methods(documents, impl.some[1], impl.some[2])
        ELSE <<>>

\* C12: go-to-definition with the cursor on the defining name of a variable,
\* a parameter or a procedure returns no location when the interface fan-out
\* finds nothing: it never navigates to the symbol being defined.
C12_NoSelfNavigation ==
    \A u \in Loaded : \A s \in SymbolsOf(u) :
        (/\ query.op = "goto_definition"
         /\ query.uri = u
         /\ s.kind \in {"Variable", "Parameter", "Procedure"}
         /\ OnName(s, query.offset)
         /\ FanOut(u, query.offset) = <<>>)
        => query.result = None


\* extract_type_object_name: the object named by a type such as
\* `Interface "B"`; the first word of a type text is one element.
extract_type_object_name(type_info) ==
    LET text == trim(type_info)
    IN  IF text = <<>>
           \/ Head(text) \notin {"Record", "Codeunit", "Page", "Report", "Query",
                                 "Xmlport", "Enum", "Interface"}
        THEN None
        ELSE IF trim(Tail(text)) = <<>> \/ trim_matches(trim(Tail(text)), Quote) = <<>>
        THEN None
        ELSE Some(trim_matches(trim(Tail(text)), Quote))

\* The object a variable is typed as, when its type starts with `prefix`.
typed_as(symbol, prefix) ==
    IF symbol = None \/ symbol.some.type_info = None THEN None
    ELSE IF trim(symbol.some.type_info.some) = <<>>
            \/ Head(trim(symbol.some.type_info.some)) # prefix
    THEN None
    ELSE extract_type_object_name(symbol.some.type_info.some)

\* The object type of the variable a method_call is made through.
call_target(call, symbol_table, prefix) ==
    IF child_by_field_name(call, "object") = None THEN None
    ELSE LET object == child_by_field_name(call, "object").some
         IN  typed_as(first_of(lookup_in_scope(symbol_table, extract_name(object),
                                               object.start_byte)),
                      prefix)

\* The cursor is on the method of `Var.Method()` and Var is typed
\* `<prefix> X`: the pair (X, Method).
method_call_at_offset(tree, symbol_table, byte_offset, prefix) ==
    LET at == node_at_offset(tree, byte_offset)
    IN  IF at = None \/ ~is_identifier(at.some.node) \/ at.some.parent = None THEN None
        ELSE IF at.some.parent.some.kind # "method_call" \/ at.some.node.field # "method"
        THEN None
        ELSE IF call_target(at.some.parent.some, symbol_table, prefix) = None THEN None
        ELSE Some(<<call_target(at.some.parent.some, symbol_table, prefix).some,
                    extract_name(at.some.node)>>)

interface_method_call_at_offset(tree, symbol_table, byte_offset) ==
    method_call_at_offset(tree, symbol_table, byte_offset, "Interface")

codeunit_method_call_at_offset(tree, symbol_table, byte_offset) ==
    method_call_at_offset(tree, symbol_table, byte_offset, "Codeunit")

\* Every node of kind `kind` below a node, in the order of a pre-order walk.
RECURSIVE nodes_of_kind(_, _)
nodes_of_kind(node, kind) ==
    (IF node.kind = kind THEN <<node>> ELSE <<>>)
    \o Flatten([i \in 1..Len(node.children) |-> nodes_of_kind(node.children[i], kind)])

\* The ranges of the method names of the calls `Var.Method()` with Var typed
\* `<prefix> object_name` and Method the method name.
find_method_calls(tree, symbol_table, prefix, object_name, method_name) ==
    LET calls == SelectSeq(nodes_of_kind(tree, "method_call"),
                     LAMBDA call :
                        /\ child_by_field_name(call, "method") # None
                        /\ same_name(extract_name(child_by_field_name(call, "method").some),
                                     method_name)
                        /\ call_target(call, symbol_table, prefix) # None
                        /\ same_name(call_target(call, symbol_table, prefix).some,
                                     object_name))
    IN  [i \in 1..Len(calls) |-> node_range(child_by_field_name(calls[i], "method").some)]

find_interface_method_calls(tree, symbol_table, interface_name, method_name) ==
    find_method_calls(tree, symbol_table, "Interface", interface_name, method_name)

find_codeunit_method_calls(tree, symbol_table, codeunit_name, method_name) ==
    find_method_calls(tree, symbol_table, "Codeunit", codeunit_name, method_name)

\* One list of ranges per loaded document, as locations.
in_every_document(docs, Ranges(_)) ==
    Flatten([e \in 1..Len(entries(docs)) |->
        LET ranges == Ranges(docs[entries(docs)[e]])
        IN  [i \in 1..Len(ranges) |-> Location(entries(docs)[e], ranges[i])]])

optional_range(symbol, Span(_)) == IF symbol = None THEN <<>> ELSE <<Span(symbol.some)>>

some_locations(locations) == IF locations = <<>> THEN None ELSE Some(locations)

\* handle_references.
handle_references(docs, uri, byte_offset, include_declaration) ==
    IF docs[uri] = NoDoc THEN None
    ELSE LET doc       == docs[uri]
             via_iface == interface_method_call_at_offset(doc.tree, doc.symbol_table,
                                                          byte_offset)
             via_unit  == codeunit_method_call_at_offset(doc.tree, doc.symbol_table,
                                                         byte_offset)
             refs      == find_all_references(doc.tree, doc.symbol_table, byte_offset,
                                              include_declaration)
             own       == [i \in 1..Len(refs) |-> Location(uri, refs[i])]
             iface_method == interface_method_at(doc.symbol_table, byte_offset)
             impl_proc == implementation_procedure_at(doc.symbol_table, byte_offset)
             cu_proc   == codeunit_procedure_at(doc.symbol_table, byte_offset)
         IN  IF via_iface # None
             THEN some_locations(in_every_document(docs, LAMBDA other :
                     (IF include_declaration
                      THEN optional_range(find_interface_method(other.symbol_table,
                                              via_iface.some[1], via_iface.some[2]),
                                          symbol_range)
                      ELSE <<>>)
                     \o find_interface_method_calls(other.tree, other.symbol_table,
                                                    via_iface.some[1], via_iface.some[2])))
             ELSE IF via_unit # None
             THEN some_locations(in_every_document(docs, LAMBDA other :
                     (IF include_declaration
                      THEN optional_range(find_object_procedure(other.symbol_table,
                                              via_unit.some[1], via_unit.some[2]),
                                          name_range)
                      ELSE <<>>)
                     \o find_codeunit_method_calls(other.tree, other.symbol_table,
                                                   via_unit.some[1], via_unit.some[2])))
             ELSE IF ~cursor_on_procedure(doc, byte_offset) THEN some_locations(own)
             ELSE some_locations(
                     own
                     \o (IF iface_method = None THEN <<>>
                         ELSE in_every_document(docs, LAMBDA other :
                                 find_interface_method_calls(other.tree, other.symbol_table,
                                     iface_method.some[1], iface_method.some[2])))
                     \o (IF impl_proc = None THEN <<>>
                         ELSE located(interface_methods(docs, impl_proc.some[1],
                                                        impl_proc.some[2]),
                                      symbol_range))
                     \o (IF cu_proc = None THEN <<>>
                         ELSE in_every_document(docs, LAMBDA other :
                                 find_codeunit_method_calls(other.tree, other.symbol_table,
                                     cu_proc.some[1], cu_proc.some[2]))))


\* find_all_references at one cursor, with and without the declaration.
FindAllReferences(uri, byte_offset) ==
    /\ query = NoQuery
    /\ documents[uri] # NoDoc
    /\ query' = Request("find_all_references", uri, byte_offset, <<>>,
                    [included |-> find_all_references(documents[uri].tree,
                                      documents[uri].symbol_table, byte_offset, TRUE),
                     excluded |-> find_all_references(documents[uri].tree,
                                      documents[uri].symbol_table, byte_offset, FALSE)])
    /\ UNCHANGED <<table, storeVars, concVars>>

References(uri, byte_offset, include_declaration) ==
    /\ query = NoQuery
    /\ query' = Request("references", uri, byte_offset, include_declaration,
                        handle_references(documents, uri, byte_offset, include_declaration))
    /\ UNCHANGED <<table, storeVars, concVars>>

\* The symbol the identifier under the cursor of the query resolves to.
Resolved(u, byte_offset) ==
    LET ctx == identifier_context_at_offset(documents[u].tree, documents[u].symbol_table,
                                            byte_offset)
    IN  IF ctx = None THEN None ELSE ctx.some.symbol

Occurrences(seq, x) == Cardinality({i \in 1..Len(seq) : seq[i] = x})
Without(seq, x) == SelectSeq(seq, LAMBDA y : y # x)

\* C13: for every offset on an identifier that resolves to a symbol,
\* find_all_references with the declaration holds the range of the symbol's
\* defining name exactly once, and without the declaration it is the same
\* list with that one range removed.
C13_DefinitionExactlyOnce ==
    (query.op = "find_all_references" /\ Resolved(query.uri, query.offset) # None)
    => LET defined_at == name_range(Resolved(query.uri, query.offset).some)
       IN  /\ Occurrences(query.result.included, defined_at) = 1
           /\ query.result.excluded = Without(query.result.included, defined_at)

\* A call of a procedure: the definition and the call are both found.
C13_Witness ==
    /\ query.op = "find_all_references"
    /\ Resolved(query.uri, query.offset) # None
    /\ Resolved(query.uri, query.offset).some.kind = "Procedure"
    /\ ~OnName(Resolved(query.uri, query.offset).some, query.offset)
    /\ Len(query.result.included) = 2
    /\ Len(query.result.excluded) = 1


\* The ranges of the method names of the calls made, in a document, through
\* a variable typed as an interface.
InterfaceCallSites(u) ==
    LET calls == SelectSeq(nodes_of_kind(documents[u].tree, "method_call"),
                     LAMBDA call : call_target(call, documents[u].symbol_table,
                                               "Interface") # None)
    IN  {node_range(child_by_field_name(calls[i], "method").some) : i \in 1..Len(calls)}

\* C14: find-references with the cursor on the name of a procedure P of an
\* object that implements interfaces returns the definition of the method P
\* of every implemented interface that declares it, and returns no call site
\* made through an interface-typed variable, in any loaded document.
C14_ImplementationReferences ==
    \A u \in Loaded : \A object \in Elements(ObjectsOf(u)) : \A p \in ProceduresOf(object) :
        (/\ query.op = "references"
         /\ query.uri = u
         /\ object.implements # <<>>
         /\ OnName(p, query.offset))
        => /\ \A v \in Loaded : \A interface \in Elements(ObjectsOf(v)) :
              \A method \in ProceduresOf(interface) :
                  (/\ is_interface(interface)
                   /\ Implements(object, interface)
                   /\ same_name(method.name, p.name))
                  => Location(v, symbol_range(method)) \in Locations(query.result)
           /\ \A v \in Loaded : \A site \in InterfaceCallSites(v) :
                  Location(v, site) \notin Locations(query.result)


\* The cursor is on an identifier, and on the method of a qualified call.
OnIdentifier(u, byte_offset) ==
    identifier_context_at_offset(documents[u].tree, documents[u].symbol_table,
                                 byte_offset) # None
OnQualifiedMethod(u, byte_offset) ==
    LET at == node_at_offset(documents[u].tree, byte_offset)
    IN  /\ at # None
        /\ at.some.parent # None
        /\ at.some.parent.some.kind = "method_call"
        /\ child_by_field_name(at.some.parent.some, "method") = Some(at.some.node)

\* C15: find-references with the cursor on an identifier whose scoped
\* resolution is not a procedure, and that is not the method of a qualified
\* call, returns only locations of the request's own document.
C15_OtherIdentifiersStayInDocument ==
    (/\ query.op = "references"
     /\ query.uri \in Loaded
     /\ OnIdentifier(query.uri, query.offset)
     /\ ~OnQualifiedMethod(query.uri, query.offset)
     /\ \/ Resolved(query.uri, query.offset) = None
        \/ Resolved(query.uri, query.offset).some.kind # "Procedure")
    => \A location \in Locations(query.result) : location.uri = query.uri

\* A parameter named like the interface method of another loaded document,
\* inside an implementation of that interface.
C15_Witness ==
    /\ query.op = "references"
    /\ query.uri \in Loaded
    /\ ~OnQualifiedMethod(query.uri, query.offset)
    /\ Resolved(query.uri, query.offset) # None
    /\ Resolved(query.uri, query.offset).some.kind = "Parameter"
    /\ implementation_procedure_at(documents[query.uri].symbol_table, query.offset) # None
    /\ query.result # None
    /\ \E v \in Loaded \ {query.uri} : \E interface \in Elements(ObjectsOf(v)) :
          /\ is_interface(interface)
          /\ \E method \in ProceduresOf(interface) :
                same_name(method.name, Resolved(query.uri, query.offset).some.name)


\* handle_prepare_rename: the range of the identifier, or None.
handle_prepare_rename(docs, uri, byte_offset) ==
    IF docs[uri] = NoDoc THEN None
    ELSE LET doc == docs[uri]
             at  == node_at_offset(doc.tree, byte_offset)
             ctx == identifier_context_at_offset(doc.tree, doc.symbol_table, byte_offset)
         IN  IF interface_method_call_at_offset(doc.tree, doc.symbol_table,
                                                byte_offset) # None
                \/ codeunit_method_call_at_offset(doc.tree, doc.symbol_table,
                                                  byte_offset) # None
             THEN IF at = None THEN None ELSE Some(node_range(at.some.node))
             ELSE IF ctx = None THEN None
             ELSE IF ctx.some.symbol # None
                     /\ ctx.some.symbol.some.kind \in {"Trigger", "Object"}
             THEN None
             ELSE Some(node_range(ctx.some.node))

\* make_rename_edit, with the document it is inserted for.
make_rename_edit(uri, range, new_name) ==
    [uri |-> uri, range |-> range,
     new_text |-> IF \E i \in 1..Len(new_name) : new_name[i] = " "
                  THEN <<Quote>> \o new_name \o <<Quote>>
                  ELSE new_name]

rename_edits(locations, new_name) ==
    [i \in 1..Len(locations) |->
        make_rename_edit(locations[i].uri, locations[i].range, new_name)]

\* The edits of a WorkspaceEdit, in the order they are inserted.
rename_interface_method(docs, interface_name, method_name, new_name) ==
    rename_edits(in_every_document(docs, LAMBDA doc :
        optional_range(find_interface_method(doc.symbol_table, interface_name,
                                             method_name), name_range)
        \o (LET impl_procs == find_implementation_procedures(doc.symbol_table,
                                  interface_name, method_name)
            IN  [i \in 1..Len(impl_procs) |-> name_range(impl_procs[i])])
        \o find_interface_method_calls(doc.tree, doc.symbol_table, interface_name,
                                       method_name)), new_name)

rename_implementation_procedure(docs, impl_uri, iface_names, method_name, new_name) ==
    rename_edits(
        (IF docs[impl_uri] = NoDoc THEN <<>>
         ELSE LET doc   == docs[impl_uri]
                  procs == procedures_where(doc.symbol_table, LAMBDA s : TRUE,
                               LAMBDA c : same_name(c.name, method_name))
              IN  Flatten([i \in 1..Len(procs) |->
                      LET refs == find_all_references(doc.tree, doc.symbol_table,
                                      procs[i].child.start_byte, FALSE)
                      IN  <<Location(impl_uri, name_range(procs[i].child))>>
                          \o [k \in 1..Len(refs) |-> Location(impl_uri, refs[k])]]))
        \o located(interface_methods(docs, iface_names, method_name), name_range),
        new_name)

rename_codeunit_procedure(docs, codeunit_name, method_name, new_name) ==
    rename_edits(in_every_document(docs, LAMBDA doc :
        (LET proc_sym == find_object_procedure(doc.symbol_table, codeunit_name,
                                               method_name)
         IN  IF proc_sym = None THEN <<>>
             ELSE <<name_range(proc_sym.some)>>
                  \o find_all_references(doc.tree, doc.symbol_table,
                                         proc_sym.some.start_byte, FALSE))
        \o find_codeunit_method_calls(doc.tree, doc.symbol_table, codeunit_name,
                                      method_name)), new_name)

\* handle_rename: None, or the edits of the WorkspaceEdit.
handle_rename(docs, uri, byte_offset, new_name) ==
    IF docs[uri] = NoDoc THEN None
    ELSE LET doc       == docs[uri]
             via_iface == interface_method_call_at_offset(doc.tree, doc.symbol_table,
                                                          byte_offset)
             via_unit  == codeunit_method_call_at_offset(doc.tree, doc.symbol_table,
                                                         byte_offset)
             ctx       == identifier_context_at_offset(doc.tree, doc.symbol_table,
                                                       byte_offset)
             iface_method == interface_method_at(doc.symbol_table, byte_offset)
             impl_proc == implementation_procedure_at(doc.symbol_table, byte_offset)
             cu_proc   == codeunit_procedure_at(doc.symbol_table, byte_offset)
             refs      == find_all_references(doc.tree, doc.symbol_table, byte_offset,
                                              TRUE)
         IN  IF via_iface # None
             THEN Some(rename_interface_method(docs, via_iface.some[1],
                                               via_iface.some[2], new_name))
             ELSE IF via_unit # None
             THEN Some(rename_codeunit_procedure(docs, via_unit.some[1],
                                                 via_unit.some[2], new_name))
             ELSE IF ctx = None THEN None
             ELSE IF ctx.some.symbol # None
                     /\ ctx.some.symbol.some.kind \in {"Trigger", "Object"}
             THEN None
             ELSE IF cursor_on_procedure(doc, byte_offset) /\ iface_method # None
             THEN Some(rename_interface_method(docs, iface_method.some[1],
                                               iface_method.some[2], new_name))
             ELSE IF cursor_on_procedure(doc, byte_offset) /\ impl_proc # None
             THEN Some(rename_implementation_procedure(docs, uri, impl_proc.some[1],
                                                       impl_proc.some[2], new_name))
             ELSE IF cursor_on_procedure(doc, byte_offset) /\ cu_proc # None
             THEN Some(rename_codeunit_procedure(docs, cu_proc.some[1],
                                                 cu_proc.some[2], new_name))
             ELSE IF refs = <<>> THEN None
             ELSE Some([i \in 1..Len(refs) |-> make_rename_edit(uri, refs[i], new_name)])

\* The new names of the rename requests: a fresh name, and one with a space.
NewNames == {<<"d">>, <<"d", " ", "e">>}

PrepareRename(uri, byte_offset) ==
    /\ query = NoQuery
    /\ query' = Request("prepare_rename", uri, byte_offset, <<>>,
                        handle_prepare_rename(documents, uri, byte_offset))
    /\ UNCHANGED <<table, storeVars, concVars>>

Rename(uri, byte_offset, new_name) ==
    /\ query = NoQuery
    /\ query' = Request("rename", uri, byte_offset, new_name,
                        handle_rename(documents, uri, byte_offset, new_name))
    /\ UNCHANGED <<table, storeVars, concVars>>


\* The interface and the method of the qualified call under the cursor.
CalledThrough(u, byte_offset, prefix) ==
    LET at == node_at_offset(documents[u].tree, byte_offset)
    IN  IF ~OnQualifiedMethod(u, byte_offset) THEN None
        ELSE call_target(at.some.parent.some, documents[u].symbol_table, prefix)

\* Across the loaded documents: the defining names of the methods `method`
\* of the interfaces `interface`, of the procedures `method` of the objects
\* implementing it, and the method names of the calls of it through a
\* variable typed as the interface.
InterfaceMethodNames(interface, method) ==
    UNION {{Location(v, name_range(m)) :
               m \in {m \in SymbolsOf(v) : \E object \in Elements(ObjectsOf(v)) :
                         /\ is_interface(object)
                         /\ same_name(object.name, interface)
                         /\ m \in ProceduresOf(object)
                         /\ same_name(m.name, method)}} : v \in Loaded}

ImplementationNames(interface, method) ==
    UNION {{Location(v, name_range(m)) :
               m \in {m \in SymbolsOf(v) : \E object \in Elements(ObjectsOf(v)) :
                         /\ \E k \in 1..Len(object.implements) :
                               same_name(object.implements[k], interface)
                         /\ m \in ProceduresOf(object)
                         /\ same_name(m.name, method)}} : v \in Loaded}

InterfaceCallsOf(v, interface, method) ==
    LET calls == SelectSeq(nodes_of_kind(documents[v].tree, "method_call"),
                     LAMBDA call :
                        /\ call_target(call, documents[v].symbol_table, "Interface") # None
                        /\ same_name(call_target(call, documents[v].symbol_table,
                                                 "Interface").some, interface)
                        /\ same_name(extract_name(child_by_field_name(call, "method").some),
                                     method))
    IN  {Location(v, node_range(child_by_field_name(calls[i], "method").some)) :
            i \in 1..Len(calls)}

InterfaceCallNames(interface, method) ==
    UNION {InterfaceCallsOf(v, interface, method) : v \in Loaded}

RenameSites(interface, method) ==
    InterfaceMethodNames(interface, method) \cup ImplementationNames(interface, method)
    \cup InterfaceCallNames(interface, method)

EditsAt(result, site) ==
    {i \in 1..Len(result.some) :
        result.some[i].uri = site.uri /\ result.some[i].range = site.range}

HasSpace(name) == \E i \in 1..Len(name) : name[i] = " "
Written(name) == IF HasSpace(name) THEN <<Quote>> \o name \o <<Quote>> ELSE name

\* The cursor of the query is on the method of a call through a variable
\* typed as an interface.
RenameThroughInterface ==
    /\ query.op = "rename"
    /\ query.uri \in Loaded
    /\ CalledThrough(query.uri, query.offset, "Interface") # None

CalledMethod ==
    extract_name(node_at_offset(documents[query.uri].tree, query.offset).some.node)

EditsEverySite ==
    /\ query.result # None
    /\ \A site \in RenameSites(CalledThrough(query.uri, query.offset, "Interface").some,
                               CalledMethod) :
          Cardinality(EditsAt(query.result, site)) = 1

\* C16: rename with the cursor on the method of a call through an
\* interface-typed variable emits one edit for the interface method
\* definition, one for every procedure of that name of every implementing
\* object and one for every call through a variable of that interface type,
\* across the loaded documents, and the text of every edit is the new name.
C16_RenameThroughInterfaceCall ==
    RenameThroughInterface
    => /\ EditsEverySite
       /\ \A i \in 1..Len(query.result.some) :
             query.result.some[i].new_text = query.argument

\* C16 as the code has it: the text of every edit is the new name as AL
\* writes it, in double quotes when it holds a space and bare otherwise.
C16_RenameThroughInterfaceCallWritten ==
    RenameThroughInterface
    => /\ EditsEverySite
       /\ \A i \in 1..Len(query.result.some) :
             query.result.some[i].new_text = Written(query.argument)

\* A rename to a name with a space that edits the interface, two
\* implementations and a call, in two documents.
C16_Witness ==
    /\ RenameThroughInterface
    /\ HasSpace(query.argument)
    /\ query.result # None
    /\ LET interface == CalledThrough(query.uri, query.offset, "Interface").some
       IN  /\ InterfaceMethodNames(interface, CalledMethod) # {}
           /\ Cardinality(ImplementationNames(interface, CalledMethod)) = 2
           /\ InterfaceCallNames(interface, CalledMethod) # {}
           /\ Len(query.result.some) >= 4
           /\ \E i, j \in 1..Len(query.result.some) :
                 query.result.some[i].uri # query.result.some[j].uri


EditSites(result) ==
    IF result = None THEN {}
    ELSE {Location(result.some[i].uri, result.some[i].range) : i \in 1..Len(result.some)}

\* The same-document references of a symbol, its defining name included.
ReferencesOf(u, sym) ==
    {Location(u, r) : r \in Elements(find_all_references(documents[u].tree,
                                         documents[u].symbol_table, sym.name_start, TRUE))}

ImplementedMethodNames(object, method) ==
    UNION {InterfaceMethodNames(object.implements[k], method) :
              k \in 1..Len(object.implements)}

\* C17: rename with the cursor on the name of a procedure P of an object O
\* that implements interfaces edits no procedure named P of another object,
\* in any document: every edit is at the name of O's P, at one of its
\* same-document references, or at the name of the method P of an interface
\* O implements.
C17_OtherImplementationsUntouched ==
    \A u \in Loaded : \A object \in Elements(ObjectsOf(u)) : \A p \in ProceduresOf(object) :
        (/\ query.op = "rename"
         /\ query.uri = u
         /\ object.implements # <<>>
         /\ OnName(p, query.offset))
        => /\ \A v \in Loaded : \A other \in Elements(ObjectsOf(v)) :
              \A q \in ProceduresOf(other) :
                  (/\ same_name(q.name, p.name)
                   /\ (v # u \/ other # object)
                   /\ ~(is_interface(other) /\ Implements(object, other)))
                  => Location(v, name_range(q)) \notin EditSites(query.result)
           /\ EditSites(query.result) \subseteq
                 {Location(u, name_range(p))} \cup ReferencesOf(u, p)
                 \cup ImplementedMethodNames(object, p.name)


\* C18: with the cursor on the name of a trigger or of an object,
\* prepareRename returns no range and rename returns no workspace edit.
C18_TriggerAndObjectRefused ==
    \A u \in Loaded : \A s \in SymbolsOf(u) :
        (/\ query.op \in {"prepare_rename", "rename"}
         /\ query.uri = u
         /\ s.kind \in {"Trigger", "Object"}
         /\ OnName(s, query.offset))
        => query.result = None


\* C26: whenever rename returns a workspace edit, the edit has, in the
\* request's document, an edit whose range is the identifier under the
\* cursor; at every cursor position, an unqualified call of a procedure
\* inside the body of another procedure included.
C26_RenameEditsIdentifierUnderCursor ==
    (/\ query.op = "rename"
     /\ query.uri \in Loaded
     /\ query.result # None)
    => Location(query.uri,
                node_range(node_at_offset(documents[query.uri].tree, query.offset).some.node))
         \in EditSites(query.result)

\* Two ranges are the same or share a byte.
overlapping(r, q) == r = q \/ (r.start < q.end /\ q.start < r.end)

\* C27: no workspace edit returned by rename has, for one document, two
\* edits with the same or overlapping ranges; in every arrangement of the
\* documents, an interface and its implementation in one document included.
C27_RenameEditsDisjoint ==
    (query.op = "rename" /\ query.result # None)
    => \A i, j \in 1..Len(query.result.some) :
          (i # j /\ query.result.some[i].uri = query.result.some[j].uri)
          => ~overlapping(query.result.some[i].range, query.result.some[j].range)

\* The client applies a workspace edit and sends the new text of each edited
\* document; the server parses it again.  Every edit of a rename replaces
\* one identifier token, so the new text is the old one with those tokens
\* rewritten: `token` is the identifier the lexer reads from the new text.
token(new_text) ==
    [kind |-> IF Head(new_text) = Quote THEN "quoted_identifier" ELSE "identifier",
     text |-> new_text]

edits_of(edits, uri) == SelectSeq(edits, LAMBDA e : e.uri = uri)

rewritten_name(node, at, edits) ==
    LET hits == SelectSeq(edits, LAMBDA e : e.range = node_range(at))
    IN  IF hits = <<>> THEN node ELSE token(hits[1].new_text)

rewritten_locals(locals, nodes, edits) ==
    [i \in 1..Len(locals) |->
        Local(rewritten_name(locals[i].node, nodes[i].children[1], edits),
              locals[i].type)]

rewritten_statement(stmt, node, edits) ==
    IF stmt.kind = "function_call"
    THEN FunctionCall(rewritten_name(stmt.name, node.children[1], edits))
    ELSE MethodCall(rewritten_name(stmt.object, node.children[1], edits),
                    rewritten_name(stmt.method, node.children[2], edits))

rewritten_procedure(proc, node, edits) ==
    Procedure(proc.kind,
              rewritten_name(proc.node, node.children[1], edits),
              rewritten_locals(proc.parameters, node.children[2].children, edits),
              IF proc.vars = <<>> THEN <<>>
              ELSE rewritten_locals(proc.vars, node.children[3].children, edits),
              LET body == node.children[Len(node.children)]
              IN  [i \in 1..Len(proc.body) |->
                      rewritten_statement(proc.body[i], body.children[i], edits)])

rewritten_object(object, node, edits) ==
    ObjectDecl(object.kind,
               rewritten_name(object.node, node.children[1], edits),
               [i \in 1..Len(object.interfaces) |->
                   rewritten_name(object.interfaces[i], node.children[1 + i], edits)],
               [i \in 1..Len(object.members) |->
                   LET member == node.children[1 + Len(object.interfaces) + i]
                   IN  IF object.members[i].kind = "var_section"
                       THEN VarSection(rewritten_locals(object.members[i].vars,
                                                        member.children, edits))
                       ELSE rewritten_procedure(object.members[i], member, edits)])

apply_edits(doc, edits) ==
    IF edits = <<>> THEN doc
    ELSE NavDocument([i \in 1..Len(doc.rope) |->
                         rewritten_object(doc.rope[i], doc.tree.children[i], edits)])

\* Where a range of the old text lies in the new text: every edited token
\* before it moves it by the change of that token's length.
edited_ranges(edits, uri) == {e.range : e \in Elements(edits_of(edits, uri))}
text_at(edits, uri, range) ==
    (CHOOSE e \in Elements(edits_of(edits, uri)) : e.range = range).new_text

RECURSIVE growth(_, _, _)
growth(ranges, edits, uri) ==
    IF ranges = {} THEN 0
    ELSE LET r == CHOOSE r \in ranges : TRUE
         IN  Len(text_at(edits, uri, r)) - (r.end - r.start)
             + growth(ranges \ {r}, edits, uri)

moved(location, edits) ==
    LET before == {r \in edited_ranges(edits, location.uri) :
                      r.end <= location.range.start}
        start  == location.range.start + growth(before, edits, location.uri)
    IN  Location(location.uri,
                 Range(start,
                       IF location.range \in edited_ranges(edits, location.uri)
                       THEN start + Len(text_at(edits, location.uri, location.range))
                       ELSE start + (location.range.end - location.range.start)))

\* The edits of the last rename are applied and the documents parsed again.
\* The request keeps where the rewritten sites now are and, when the cursor
\* was on a name of the renamed symbol's own scope, where its name now is.
ApplyRename ==
    /\ query.op = "rename"
    /\ query.result # None
    /\ query.result.some # <<>>
    /\ documents' = [u \in URIs |->
                        IF documents[u] = NoDoc THEN NoDoc
                        ELSE apply_edits(documents[u], edits_of(query.result.some, u))]
    /\ query' = [op |-> "renamed", uri |-> query.uri, offset |-> query.offset,
                 argument |-> query.argument,
                 symbol |-> IF OnQualifiedMethod(query.uri, query.offset)
                               \/ Resolved(query.uri, query.offset) = None
                            THEN None
                            ELSE Some(moved(Location(query.uri,
                                          name_range(Resolved(query.uri,
                                                              query.offset).some)),
                                      query.result.some)),
                 result |-> [i \in 1..Len(query.result.some) |->
                               moved(Location(query.result.some[i].uri,
                                              query.result.some[i].range),
                                     query.result.some)]]
    /\ UNCHANGED <<table, workspace_roots, disk, phase, last, concVars>>

\* Find-references from a rewritten site of the last rename.
RenamedSites == IF query.op = "renamed" THEN 1..Len(query.result) ELSE {}
SiteOffsets(i) == query.result[i].range.start..query.result[i].range.end

ReferencesOfRenamed(i, byte_offset) ==
    /\ query.op = "renamed"
    /\ query' = [op |-> "references_of_renamed", uri |-> query.result[i].uri,
                 offset |-> byte_offset, argument |-> query.argument,
                 symbol |-> query.symbol, sites |-> query.result,
                 result |-> handle_references(documents, query.result[i].uri,
                                              byte_offset, TRUE)]
    /\ UNCHANGED <<table, storeVars, concVars>>

\* C19: after the edits of a rename of a symbol S are applied and the
\* documents parsed again, find-references from any rewritten site resolves,
\* in S's document, to the symbol declared where S's name now is, and
\* returns every rewritten site.
C19_RenamePreservesIdentity ==
    query.op = "references_of_renamed"
    => /\ (query.symbol # None /\ query.symbol.some.uri = query.uri)
            => /\ Resolved(query.uri, query.offset) # None
               /\ Location(query.uri, name_range(Resolved(query.uri, query.offset).some))
                    = query.symbol.some
       /\ \A i \in 1..Len(query.sites) : query.sites[i] \in Locations(query.result)

NextNav ==
    \/ \E uri \in URIs : \E o \in CursorOffsets(documents[uri]) : GotoDefinition(uri, o)
    \/ \E uri \in URIs : \E o \in CursorOffsets(documents[uri]) : GotoImplementation(uri, o)
    \/ \E uri \in URIs : \E o \in CursorOffsets(documents[uri]) : FindAllReferences(uri, o)
    \/ \E uri \in URIs : \E o \in CursorOffsets(documents[uri]) :
          \E include_declaration \in BOOLEAN : References(uri, o, include_declaration)
    \/ \E uri \in URIs : \E o \in CursorOffsets(documents[uri]) : PrepareRename(uri, o)
    \/ \E uri \in URIs : \E o \in CursorOffsets(documents[uri]) :
          \E new_name \in NewNames : Rename(uri, o, new_name)
    \/ ApplyRename
    \/ \E i \in RenamedSites : \E o \in SiteOffsets(i) : ReferencesOfRenamed(i, o)

SpecNav == InitNav /\ [][NextNav]_vars

-----------------------------------------------------------------------------
(* SpecFmt: document formatting *)

\* A text is a sequence of characters; a word (a keyword, a name, a number)
\* is held as one element that no spacing rule looks at.

\* The first index from `from` on of a character in `wanted`, or one past the
\* end of the text (str::find).
first_index(text, from, wanted) ==
    LET hits == {i \in from..Len(text) : text[i] \in wanted}
    IN  IF hits = {} THEN Len(text) + 1
        ELSE CHOOSE i \in hits : \A j \in hits : i <= j

\* A line that ended in a line feed loses the carriage return before it.
strip_cr(line, fed) ==
    IF fed /\ line # <<>> /\ line[Len(line)] = "\r"
    THEN SubSeq(line, 1, Len(line) - 1) ELSE line

\* str::lines: the text split at its line feeds; a final line feed opens no
\* line, and a carriage return right before a line feed goes with it.
lines(text) ==
    LET feeds   == {i \in 1..Len(text) : text[i] = "\n"}
        count   == IF text = <<>> THEN 0
                   ELSE IF text[Len(text)] = "\n" THEN Cardinality(feeds)
                   ELSE Cardinality(feeds) + 1
        feed(k) == IF k = 0 THEN 0
                   ELSE IF k > Cardinality(feeds) THEN Len(text) + 1
                   ELSE CHOOSE i \in feeds : Cardinality({j \in feeds : j <= i}) = k
    IN  [k \in 1..count |-> strip_cr(SubSeq(text, feed(k - 1) + 1, feed(k) - 1),
                                     k <= Cardinality(feeds))]

\* The tokens of a text, each with its row: the characters that are no
\* white space, and the number of line feeds before each.
is_token(tok) == ~is_whitespace(tok.text)
tokens_from(text, row) ==
    SelectSeq([i \in 1..Len(text) |->
                  [text |-> text[i],
                   row  |-> row + Cardinality({j \in 1..(i - 1) : text[j] = "\n"})]],
              is_token)

\* A node of the tree with the rows of its span.  The keywords that open and
\* close a node (`codeunit`, `procedure`, `var`, `begin`, `end`, `if`, `then`,
\* `else`, `for`, `do`, `repeat`, `until`, `case`, `of`, `fields`, `field`)
\* are in its span and are no children of it.
RowNode(kind, start_row, end_row, children) ==
    [kind |-> kind, start_row |-> start_row, end_row |-> end_row,
     children |-> children]

leaf(tok) ==
    RowNode(IF tok.text \in {"{", "}", ";", "(", ")", ":", "=", ","} THEN tok.text
            ELSE "identifier",
            tok.row, tok.row, <<>>)

leaves(toks) == [i \in 1..Len(toks) |-> leaf(toks[i])]
texts(toks) == [i \in 1..Len(toks) |-> toks[i].text]

Parsed(nodes, rest) == [nodes |-> nodes, rest |-> rest]

\* The row a list of nodes ends on, or `row` for an empty list.
end_row_of(nodes, row) == IF nodes = <<>> THEN row ELSE nodes[Len(nodes)].end_row

loop_kind(keyword) ==
    CASE keyword = "for" -> "for_statement"
      [] keyword = "while" -> "while_statement"
      [] keyword = "with" -> "with_statement"

\* statement := (`for` | `while` | `with`) ... `do` body
\*            | `if` ... `then` body [`else` body]
\*            | `repeat` (statement | `;`)* `until` words
\*            | `case` ... `of` (branch | `;`)* `end`
\*            | words up to the `;` (or to the keyword that closes what the
\*              statement stands in)
\* body := block | statement
\* block := `begin` (statement | `;`)* `end`
\* branch := words `:` body
RECURSIVE parse_statement(_), parse_body(_), parse_block(_), parse_items(_),
          parse_branches(_)
parse_body(toks) ==
    IF Head(toks).text = "begin" THEN parse_block(toks) ELSE parse_statement(toks)

parse_statement(toks) ==
    IF Head(toks).text \in {"for", "while", "with"}
    THEN LET k == first_index(texts(toks), 1, {"do"})
         IN  Let(parse_body(SubSeq(toks, k + 1, Len(toks))),
                 LAMBDA body :
                     Parsed(<<RowNode(loop_kind(Head(toks).text), Head(toks).row,
                                      body.nodes[1].end_row,
                                      leaves(SubSeq(toks, 2, k - 1)) \o body.nodes)>>,
                            body.rest))
    ELSE IF Head(toks).text = "if"
    THEN LET k == first_index(texts(toks), 1, {"then"})
         IN  Let(parse_body(SubSeq(toks, k + 1, Len(toks))),
                 LAMBDA consequence :
                     Let(IF consequence.rest # <<>> /\ Head(consequence.rest).text = "else"
                         THEN parse_body(Tail(consequence.rest))
                         ELSE Parsed(<<>>, consequence.rest),
                         LAMBDA alternative :
                             Parsed(<<RowNode("if_statement", Head(toks).row,
                                              end_row_of(consequence.nodes \o alternative.nodes,
                                                         Head(toks).row),
                                              leaves(SubSeq(toks, 2, k - 1))
                                              \o consequence.nodes \o alternative.nodes)>>,
                                    alternative.rest)))
    ELSE IF Head(toks).text = "repeat"
    THEN Let(parse_items(Tail(toks)),
             LAMBDA items :
                 LET k == first_index(texts(items.rest), 1, {";", "end"})
                 IN  Parsed(<<RowNode("repeat_statement", Head(toks).row,
                                      items.rest[k - 1].row,
                                      items.nodes \o leaves(SubSeq(items.rest, 2, k - 1)))>>,
                            SubSeq(items.rest, k, Len(items.rest))))
    ELSE IF Head(toks).text = "case"
    THEN LET k == first_index(texts(toks), 1, {"of"})
         IN  Let(parse_branches(SubSeq(toks, k + 1, Len(toks))),
                 LAMBDA branches :
                     Parsed(<<RowNode("case_statement", Head(toks).row,
                                      Head(branches.rest).row,
                                      leaves(SubSeq(toks, 2, k - 1)) \o branches.nodes)>>,
                            Tail(branches.rest)))
    ELSE LET k == first_index(texts(toks), 1, {";", "end", "else", "until"})
         IN  Parsed(<<RowNode("assignment_statement", Head(toks).row,
                              toks[k - 1].row, leaves(SubSeq(toks, 1, k - 1)))>>,
                    SubSeq(toks, k, Len(toks)))

parse_items(toks) ==
    IF Head(toks).text \in {"end", "until"} THEN Parsed(<<>>, toks)
    ELSE IF Head(toks).text = ";"
    THEN Let(parse_items(Tail(toks)),
             LAMBDA more : Parsed(<<leaf(Head(toks))>> \o more.nodes, more.rest))
    ELSE Let(parse_statement(toks),
             LAMBDA stmt :
                 Let(parse_items(stmt.rest),
                     LAMBDA more : Parsed(stmt.nodes \o more.nodes, more.rest)))

parse_block(toks) ==
    Let(parse_items(Tail(toks)),
        LAMBDA items :
            Parsed(<<RowNode("block", Head(toks).row, Head(items.rest).row,
                             items.nodes)>>,
                   Tail(items.rest)))

parse_branches(toks) ==
    IF Head(toks).text = "end" THEN Parsed(<<>>, toks)
    ELSE IF Head(toks).text = ";"
    THEN Let(parse_branches(Tail(toks)),
             LAMBDA more : Parsed(<<leaf(Head(toks))>> \o more.nodes, more.rest))
    ELSE LET k == first_index(texts(toks), 1, {":"})
         IN  Let(parse_body(SubSeq(toks, k + 1, Len(toks))),
                 LAMBDA body :
                     Let(parse_branches(body.rest),
                         LAMBDA more :
                             Parsed(<<RowNode("case_branch", Head(toks).row,
                                              body.nodes[1].end_row,
                                              leaves(SubSeq(toks, 1, k)) \o body.nodes)>>
                                    \o more.nodes,
                                    more.rest)))

\* variable := name `:` type `;`
RECURSIVE parse_variables(_)
parse_variables(toks) ==
    IF Head(toks).text = "begin" THEN Parsed(<<>>, toks)
    ELSE LET k == first_index(texts(toks), 1, {";"})
         IN  Let(parse_variables(SubSeq(toks, k + 1, Len(toks))),
                 LAMBDA more :
                     Parsed(<<RowNode("variable_declaration", Head(toks).row, toks[k].row,
                                      leaves(SubSeq(toks, 1, k)))>> \o more.nodes,
                            more.rest))

\* var_section := `var` variable*
parse_var_section(toks) ==
    IF Head(toks).text # "var" THEN Parsed(<<>>, toks)
    ELSE Let(parse_variables(Tail(toks)),
             LAMBDA variables :
                 Parsed(<<RowNode("var_section", Head(toks).row,
                                  end_row_of(variables.nodes, Head(toks).row),
                                  variables.nodes)>>,
                        variables.rest))

\* procedure := (`procedure` | `trigger`) name `(` ... `)` [`:` type]
\*              [[var_section] block] `;`
parse_procedure(toks) ==
    LET k == first_index(texts(toks), 1, {"var", "begin", ";"})
    IN  Let(parse_var_section(SubSeq(toks, k, Len(toks))),
            LAMBDA locals :
                Let(IF Head(locals.rest).text = "begin" THEN parse_block(locals.rest)
                    ELSE Parsed(<<>>, locals.rest),
                    LAMBDA body :
                        Parsed(<<RowNode(IF Head(toks).text = "trigger"
                                         THEN "trigger_declaration"
                                         ELSE "procedure_declaration",
                                         Head(toks).row, Head(body.rest).row,
                                         leaves(SubSeq(toks, 2, k - 1)) \o locals.nodes
                                         \o body.nodes \o <<leaf(Head(body.rest))>>)>>,
                               Tail(body.rest))))

\* property := name `=` value `;`
RECURSIVE parse_properties(_)
parse_properties(toks) ==
    IF Head(toks).text = "}" THEN Parsed(<<>>, toks)
    ELSE LET k == first_index(texts(toks), 1, {";"})
         IN  Let(parse_properties(SubSeq(toks, k + 1, Len(toks))),
                 LAMBDA more :
                     Parsed(<<RowNode("property", Head(toks).row, toks[k].row,
                                      leaves(SubSeq(toks, 1, k)))>> \o more.nodes,
                            more.rest))

\* `{` property* `}`, when the next token opens it.
parse_braces(toks) ==
    IF toks = <<>> \/ Head(toks).text # "{" THEN Parsed(<<>>, toks)
    ELSE Let(parse_properties(Tail(toks)),
             LAMBDA properties :
                 Parsed(<<leaf(Head(toks))>> \o properties.nodes
                        \o <<leaf(Head(properties.rest))>>,
                        Tail(properties.rest)))

\* entry := (`field` | `key`) `(` ... `)` [`{` property* `}`]
RECURSIVE parse_entries(_)
parse_entries(toks) ==
    IF Head(toks).text = "}" THEN Parsed(<<>>, toks)
    ELSE LET k == first_index(texts(toks), 1, {")"})
         IN  Let(parse_braces(SubSeq(toks, k + 1, Len(toks))),
                 LAMBDA braces :
                     Let(parse_entries(braces.rest),
                         LAMBDA more :
                             Parsed(<<RowNode(IF Head(toks).text = "key"
                                              THEN "key_declaration"
                                              ELSE "field_declaration",
                                              Head(toks).row,
                                              end_row_of(braces.nodes, toks[k].row),
                                              leaves(SubSeq(toks, 2, k)) \o braces.nodes)>>
                                    \o more.nodes,
                                    more.rest)))

\* section := (`fields` | `keys`) `{` entry* `}`
parse_section(toks) ==
    Let(parse_entries(SubSeq(toks, 3, Len(toks))),
        LAMBDA entries_ :
            Parsed(<<RowNode(IF Head(toks).text = "keys" THEN "keys_section"
                             ELSE "fields_section",
                             Head(toks).row, Head(entries_.rest).row,
                             <<leaf(toks[2])>> \o entries_.nodes
                             \o <<leaf(Head(entries_.rest))>>)>>,
                   Tail(entries_.rest)))

RECURSIVE parse_members(_)
parse_members(toks) ==
    IF Head(toks).text = "}" THEN Parsed(<<>>, toks)
    ELSE Let(IF Head(toks).text \in {"fields", "keys"} THEN parse_section(toks)
             ELSE parse_procedure(toks),
             LAMBDA member :
                 Let(parse_members(member.rest),
                     LAMBDA more : Parsed(member.nodes \o more.nodes, more.rest)))

\* object := (`codeunit` | `table`) number name `{` member* `}`
\*         | `interface` name `{` member* `}`
parse_object(toks) ==
    LET k == first_index(texts(toks), 1, {"{"})
    IN  Let(parse_members(SubSeq(toks, k + 1, Len(toks))),
            LAMBDA members :
                Parsed(<<RowNode(CASE Head(toks).text = "table" -> "table_declaration"
                                   [] Head(toks).text = "interface" -> "interface_declaration"
                                   [] OTHER -> "codeunit_declaration",
                                 Head(toks).row, Head(members.rest).row,
                                 leaves(SubSeq(toks, 2, k)) \o members.nodes
                                 \o <<leaf(Head(members.rest))>>)>>,
                       Tail(members.rest)))

\* al_parser::parse on a text that holds one object.
parse_text(text) ==
    Let(parse_object(tokens_from(text, 0)),
        LAMBDA object : RowNode("source_file", 0, object.nodes[1].end_row, object.nodes))

FormatOptions(tab_size, insert_spaces) ==
    [tab_size |-> tab_size, insert_spaces |-> insert_spaces]

\* What assign_indentation does to its three arrays, in the order of the
\* walk: a call of set_line_indent, a line joined to the previous one, the
\* lines removed.
Indent(line, depth) == [mark |-> "indent", line |-> line, depth |-> depth]
Join(line) == [mark |-> "join", line |-> line]
Remove(removed) == [mark |-> "remove", lines |-> removed]

is_object_declaration(kind) ==
    kind \in {"codeunit_declaration", "table_declaration", "table_extension_declaration",
              "page_declaration", "page_extension_declaration", "report_declaration",
              "enum_declaration", "enum_extension_declaration", "xmlport_declaration",
              "query_declaration", "interface_declaration", "permissionset_declaration",
              "controladdin_declaration"}

is_braced_section(kind) ==
    kind \in {"fields_section", "keys_section", "fieldgroups_section", "layout_section",
              "actions_section", "dataset_section", "requestpage_section", "area_section",
              "group_section", "repeater_section", "part_section"}

is_field_like_declaration(kind) ==
    kind \in {"field_declaration", "key_declaration", "enum_value_declaration",
              "page_field", "page_action"}

is_procedure(kind) == kind \in {"procedure_declaration", "trigger_declaration"}
is_loop(kind) == kind \in {"for_statement", "while_statement", "with_statement"}

\* source.lines().nth(line).unwrap_or("")
nth_line(source_lines, line) ==
    IF line + 1 \in 1..Len(source_lines) THEN source_lines[line + 1] ELSE <<>>

\* In a procedure, before a var_section or a block: the blank lines after
\* the end of the previous child are removed.
blank_lines_removed(node, i, source_lines) ==
    LET child    == node.children[i]
        prev_end == IF i = 1 THEN node.start_row ELSE node.children[i - 1].end_row
    IN  IF child.kind \notin {"var_section", "block"} THEN <<>>
        ELSE <<Remove({l \in (prev_end + 1)..(child.start_row - 1) :
                          trim(nth_line(source_lines, l)) = <<>>})>>

\* The letters of a line, one string: its elements put together.
RECURSIVE concat(_)
concat(line) == IF line = <<>> THEN "" ELSE Head(line) \o concat(Tail(line))

\* str::to_lowercase on the letters that `else` is written with.
to_lowercase_letter(c) ==
    CASE c = "E" -> "e" [] c = "L" -> "l" [] c = "S" -> "s" [] OTHER -> c

\* trimmed.to_lowercase().starts_with("else")
starts_with_else(trimmed) ==
    LET letters == concat(trimmed)
        else_   == "else"
    IN  /\ Len(letters) >= Len(else_)
        /\ \A i \in 1..Len(else_) :
              to_lowercase_letter(SubSeq(letters, i, i)) = SubSeq(else_, i, i)

\* In an if_statement, before the alternative block: the nearest line above
\* the block that is not blank gets the depth of the statement when it
\* starts with `else`.
else_line_indent(source_lines, alt_start, depth) ==
    LET written == {l \in 0..(alt_start - 1) : trim(nth_line(source_lines, l)) # <<>>}
    IN  IF written = {} THEN <<>>
        ELSE LET else_line == CHOOSE l \in written : \A m \in written : m <= l
             IN  IF starts_with_else(trim(nth_line(source_lines, else_line)))
                 THEN <<Indent(else_line, depth)>> ELSE <<>>

\* In a loop, the block of the body: `begin` is joined to the line of the
\* statement when it starts on another line.
begin_joined(node, block) ==
    IF block.start_row # node.start_row THEN <<Join(block.start_row)>> ELSE <<>>

\* The lines a node with children claims for itself before it walks them.
own_lines(node, depth) ==
    IF node.kind \in {"block", "repeat_statement", "case_statement"}
    THEN <<Indent(node.start_row, depth), Indent(node.end_row, depth)>>
    ELSE IF \/ node.kind \in {"var_section", "if_statement", "case_branch"}
            \/ is_object_declaration(node.kind) \/ is_braced_section(node.kind)
            \/ is_field_like_declaration(node.kind) \/ is_procedure(node.kind)
            \/ is_loop(node.kind)
    THEN <<Indent(node.start_row, depth)>>
    ELSE <<>>

\* The depth a node passes to a child, where it is a matter of depth alone.
child_depth(node, child, depth) ==
    IF node.kind \in {"block", "var_section"} THEN depth + 1
    ELSE IF is_object_declaration(node.kind) \/ is_field_like_declaration(node.kind)
    THEN IF child.start_row = node.start_row \/ child.kind \in {"{", "}"}
         THEN depth ELSE depth + 1
    ELSE IF is_braced_section(node.kind)
    THEN IF child.kind \in {"{", "}"} THEN depth ELSE depth + 1
    ELSE IF node.kind = "if_statement"
    THEN IF child.kind = "block" THEN depth + 1 ELSE depth
    ELSE IF node.kind = "repeat_statement"
    THEN IF child.start_row = node.end_row THEN depth ELSE depth + 1
    ELSE IF node.kind = "case_statement"
    THEN IF child.kind = "case_branch" THEN depth + 1 ELSE depth
    ELSE IF node.kind = "case_branch"
    THEN IF child.kind = "block" THEN depth + 1 ELSE depth
    ELSE depth

\* assign_indentation: a leaf claims its line; any other node claims its own
\* lines and walks its children.
RECURSIVE assign_indentation(_, _, _), assign_children(_, _, _, _),
          assign_all(_, _, _)
assign_indentation(node, source_lines, depth) ==
    IF node.children = <<>> THEN <<Indent(node.start_row, depth)>>
    ELSE own_lines(node, depth) \o assign_children(node, source_lines, depth, 1)

assign_children(node, source_lines, depth, i) ==
    IF i > Len(node.children) THEN <<>>
    ELSE LET child == node.children[i]
         IN  (IF is_procedure(node.kind)
              THEN blank_lines_removed(node, i, source_lines)
                   \o assign_indentation(child, source_lines, depth)
              ELSE IF node.kind = "if_statement" /\ child.kind = "block"
              THEN (IF \E j \in 1..(i - 1) : node.children[j].kind = "block"
                    THEN else_line_indent(source_lines, child.start_row, depth)
                    ELSE <<>>)
                   \o assign_indentation(child, source_lines, depth + 1)
              ELSE IF is_loop(node.kind) /\ child.kind = "block"
              THEN begin_joined(node, child)
                   \o <<Indent(child.end_row, depth)>>
                   \o assign_all(child.children, source_lines, depth + 2)
              ELSE assign_indentation(child, source_lines,
                                      child_depth(node, child, depth)))
             \o assign_children(node, source_lines, depth, i + 1)

assign_all(children, source_lines, depth) ==
    IF children = <<>> THEN <<>>
    ELSE assign_indentation(Head(children), source_lines, depth)
         \o assign_all(Tail(children), source_lines, depth)

\* set_line_indent: a line gets the depth of the first call made for it.
set_line_indent(marks, line) ==
    LET calls == {i \in 1..Len(marks) : marks[i].mark = "indent" /\ marks[i].line = line}
    IN  IF calls = {} THEN None
        ELSE Some(marks[CHOOSE i \in calls : \A j \in calls : i <= j].depth)

\* The three arrays of format_document, of line_count + 1 entries each.
Marks(walk, line_count) ==
    Let(walk,
        LAMBDA marks :
            [levels |-> [l \in 0..line_count |-> set_line_indent(marks, l)],
             join_to_prev |->
                [l \in 0..line_count |->
                    \E i \in 1..Len(marks) :
                        marks[i].mark = "join" /\ marks[i].line = l],
             remove_line |->
                [l \in 0..line_count |->
                    \E i \in 1..Len(marks) :
                        marks[i].mark = "remove" /\ l \in marks[i].lines]])

ends_with(text, c) == text # <<>> /\ text[Len(text)] = c
spaced_before(result) ==
    IF ~ends_with(result, " ") /\ result # <<>> THEN result \o <<" ">> ELSE result
spaced_after(result, chars, i, but) ==
    IF i <= Len(chars) /\ chars[i] \notin but THEN result \o <<" ">> ELSE result

\* The loop of apply_spacing from the character i on.
RECURSIVE spacing_from(_, _, _)
spacing_from(chars, i, result) ==
    IF i > Len(chars) THEN result
    ELSE LET ch   == chars[i]
             next == IF i + 1 <= Len(chars) THEN chars[i + 1] ELSE ""
         IN  IF ch = "'"
             THEN LET close == first_index(chars, i + 1, {"'"})
                  IN  IF close <= Len(chars)
                      THEN spacing_from(chars, close + 1, result \o SubSeq(chars, i, close))
                      ELSE spacing_from(chars, close, result \o SubSeq(chars, i, Len(chars)))
             ELSE IF \/ ch = ":" /\ next = "="
                     \/ ch \in {"+", "-", "*", "/"} /\ next = "="
                     \/ ch \in {"<", ">"} /\ next \in {">", "="}
             THEN spacing_from(chars, i + 2,
                      spaced_after(spaced_before(result) \o <<ch, next>>, chars, i + 2,
                                   {" "}))
             ELSE IF ch \in {"<", ">"}
             THEN spacing_from(chars, i + 1,
                      spaced_after(spaced_before(result) \o <<ch>>, chars, i + 1, {" "}))
             ELSE IF ch = ","
             THEN spacing_from(chars, i + 1,
                      spaced_after(trim_end_matches(result, " ") \o <<",">>, chars, i + 1,
                                   {" "}))
             ELSE IF ch = ";"
             THEN spacing_from(chars, i + 1,
                      spaced_after(trim_end_matches(result, " ") \o <<";">>, chars, i + 1,
                                   {" ", "\n"}))
             ELSE IF ch = " " /\ ends_with(result, " ")
             THEN spacing_from(chars, i + 1, result)
             ELSE spacing_from(chars, i + 1, result \o <<ch>>)

starts_with(line, prefix) ==
    Len(line) >= Len(prefix) /\ SubSeq(line, 1, Len(prefix)) = prefix

apply_spacing(line) ==
    IF line = <<>> THEN <<>>
    ELSE IF starts_with(line, <<"/", "/">>) \/ starts_with(line, <<"/", "*">>)
            \/ starts_with(line, <<"*">>)
    THEN line
    ELSE trim_end(spacing_from(line, 1, <<>>))

RECURSIVE repeat(_, _)
repeat(text, times) == IF times <= 0 THEN <<>> ELSE text \o repeat(text, times - 1)

\* The loop of format_document over the lines, from line_idx on.
RECURSIVE format_lines(_, _, _, _, _)
format_lines(source_lines, marks, indent_str, line_idx, result) ==
    IF line_idx >= Len(source_lines) THEN result
    ELSE LET trimmed == trim(source_lines[line_idx + 1])
             level   == IF marks.levels[line_idx] = None THEN 0
                        ELSE IF marks.levels[line_idx].some < 0 THEN 0
                        ELSE marks.levels[line_idx].some
             next    ==
                IF marks.remove_line[line_idx] THEN result
                ELSE IF trimmed = <<>> THEN result \o <<"\n">>
                ELSE IF marks.join_to_prev[line_idx] /\ result # <<>>
                THEN (IF ends_with(result, "\n") THEN SubSeq(result, 1, Len(result) - 1)
                      ELSE result)
                     \o <<" ">> \o apply_spacing(trimmed) \o <<"\n">>
                ELSE result \o repeat(indent_str, level) \o apply_spacing(trimmed)
                     \o <<"\n">>
         IN  format_lines(source_lines, marks, indent_str, line_idx + 1, next)

\* The file ends with exactly one line feed.
RECURSIVE one_final_newline(_)
one_final_newline(result) ==
    IF Len(result) >= 2 /\ result[Len(result)] = "\n" /\ result[Len(result) - 1] = "\n"
    THEN one_final_newline(SubSeq(result, 1, Len(result) - 1))
    ELSE IF ~ends_with(result, "\n") THEN result \o <<"\n">>
    ELSE result

format_document(tree, source, options) ==
    LET indent_str == IF options.insert_spaces THEN repeat(<<" ">>, options.tab_size)
                      ELSE <<"\t">>
    IN  Let(lines(source),
            LAMBDA source_lines :
                Let(Marks(assign_indentation(tree, source_lines, 0),
                          IF Len(source_lines) > 1 THEN Len(source_lines) ELSE 1),
                    LAMBDA marks :
                        one_final_newline(
                            format_lines(source_lines, marks, indent_str, 0, <<>>))))

\* DocumentState::new on a text, and handle_formatting: None when the
\* formatted text is the source, else the text of the one edit that replaces
\* the whole document.
FmtDocument(text) == [rope |-> text, tree |-> parse_text(text)]

handle_formatting(docs, uri, options) ==
    IF docs[uri] = NoDoc THEN None
    ELSE Let(format_document(docs[uri].tree, docs[uri].rope, options),
             LAMBDA formatted :
                 IF formatted = docs[uri].rope THEN None ELSE Some(formatted))

\* The texts of the loops: one codeunit with one procedure whose body is an
\* assignment or a `for` loop over a block, written with or without leading
\* blanks, with or without blanks around `:=`, with `begin` on the line of
\* `do`, on the next line or after a blank line, with or without a blank
\* line under the signature, and ending in no, one or two line feeds.
Indents == {<<>>, <<" ", " ">>}
Assignments == {<<"x", ":", "=", "1", ";">>, <<"x", " ", ":", "=", " ", "1", ";">>}
BeginGaps == {<<" ">>, <<"\n">>, <<"\n", "\n">>}
SignatureGaps == {<<>>, <<"\n">>}
Endings == {<<>>, <<"\n">>, <<"\n", "\n">>}

ForLoop(indent, gap, assignment) ==
    <<"for", " ", "i", " ", ":", "=", " ", "1", " ", "to", " ", "3", " ", "do">>
    \o gap \o indent \o <<"begin", "\n">>
    \o indent \o assignment \o <<"\n">>
    \o indent \o <<"end", ";">>

Statements(indent) ==
    Assignments
    \cup {ForLoop(indent, gap, assignment) : gap \in BeginGaps, assignment \in Assignments}

Codeunit(indent, signature_gap, statement, ending) ==
    <<"codeunit", " ", "1", " ", "a", "\n", "{", "\n">>
    \o indent \o <<"procedure", " ", "p", "(", ")", "\n">>
    \o signature_gap
    \o indent \o <<"begin", "\n">>
    \o indent \o statement \o <<"\n">>
    \o indent \o <<"end", ";", "\n">>
    \o <<"}">> \o ending

LoopTexts ==
    UNION {{Codeunit(indent, signature_gap, statement, ending) :
                signature_gap \in SignatureGaps, statement \in Statements(indent),
                ending \in Endings} :
           indent \in Indents}

\* The lines of a text, each closed by the line end.
RECURSIVE WrittenWith(_, _)
WrittenWith(source_lines, line_end) ==
    IF source_lines = <<>> THEN <<>>
    ELSE Head(source_lines) \o line_end \o WrittenWith(Tail(source_lines), line_end)

\* One procedure `p` of the codeunit `a`, with its lines between the
\* signature and the final `end;`.
InProcedure(body_lines) ==
    << <<"codeunit", " ", "1", " ", "a">>, <<"{">>, <<"procedure", " ", "p", "(", ")">> >>
    \o body_lines \o << <<"end", ";">>, <<"}">> >>

\* Local variables and a blank line above `begin`.
VarLines ==
    InProcedure(<< <<"var">>, <<"x", ":", " ", "Integer", ";">>, <<>>, <<"begin">>,
                   <<"x", ":", "=", "1", ";">> >>)

\* `if` with a block, alone and with an `else` and its block.
IfLines ==
    InProcedure(<< <<"begin">>, <<"if", " ", "x", " ", "then">>, <<"begin">>,
                   <<"x", ":", "=", "1", ";">>, <<"end", ";">> >>)
IfElseLines ==
    InProcedure(<< <<"begin">>, <<"if", " ", "x", " ", "then">>, <<"begin">>,
                   <<"x", ":", "=", "1", ";">>, <<"end">>, <<"else">>, <<"begin">>,
                   <<"x", ":", "=", "2", ";">>, <<"end", ";">> >>)

RepeatLines ==
    InProcedure(<< <<"begin">>, <<"repeat">>, <<"x", ":", "=", "1", ";">>,
                   <<"until", " ", "x", ";">> >>)

CaseLines ==
    InProcedure(<< <<"begin">>, <<"case", " ", "x", " ", "of">>, <<"1", ":">>,
                   <<"begin">>, <<"x", ":", "=", "1", ";">>, <<"end", ";">>,
                   <<"end", ";">> >>)

\* A table with one field and one key, each with a property in braces.
TableLines ==
    << <<"table", " ", "1", " ", "a">>, <<"{">>,
       <<"fields">>, <<"{">>,
       <<"field", "(", "1", ";", " ", "a", ";", " ", "Integer", ")">>, <<"{">>,
       <<"Caption", " ", "=", " ", "'", "a", "'", ";">>, <<"}">>, <<"}">>,
       <<"keys">>, <<"{">>,
       <<"key", "(", "PK", ";", " ", "a", ")">>, <<"{">>,
       <<"Clustered", " ", "=", " ", "true", ";">>, <<"}">>, <<"}">>,
       <<"}">> >>

LineEnds == {<<"\n">>, <<"\r", "\n">>}

\* The texts with the other kinds of node, written without indentation, with
\* line feeds or with carriage returns and line feeds.
ShapeTexts ==
    {WrittenWith(source_lines, line_end) :
        source_lines \in {VarLines, IfLines, IfElseLines, RepeatLines, CaseLines,
                          TableLines},
        line_end \in LineEnds}

FmtTexts == LoopTexts \cup ShapeTexts

TabSizes == {2, 4}
AllFormatOptions ==
    {FormatOptions(tab_size, insert_spaces) :
        tab_size \in TabSizes, insert_spaces \in BOOLEAN}

FmtWorkspaces ==
    {[u \in URIs |-> IF u = FirstUri THEN FmtDocument(text) ELSE NoDoc] :
        text \in FmtTexts}

InitFmt ==
    /\ documents \in FmtWorkspaces
    /\ workspace_roots = <<>>
    /\ disk = [p \in Paths |-> NoFile]
    /\ phase = "running"
    /\ last = Unhandled
    /\ IdleConc
    /\ table = <<>>
    /\ query = NoQuery

\* textDocument/formatting: on the document as opened, and once more, with
\* the same options, on the document the first answer's edit made.
Formatting(uri, options) ==
    /\ \/ query = NoQuery
       \/ query.op = "formatted" /\ query.uri = uri /\ query.argument = options
    /\ query' = [op |-> "formatting", uri |-> uri, argument |-> options,
                 pass |-> IF query = NoQuery THEN 1 ELSE 2,
                 result |-> handle_formatting(documents, uri, options)]
    /\ UNCHANGED <<table, storeVars, concVars>>

\* The client applies the edit of the answer, which replaces the whole
\* document, and the server parses the new text (didChange).
ApplyFormatting ==
    /\ query.op = "formatting"
    /\ query.pass = 1
    /\ query.result # None
    /\ documents' = [documents EXCEPT ![query.uri] = FmtDocument(query.result.some)]
    /\ query' = [query EXCEPT !.op = "formatted"]
    /\ UNCHANGED <<table, workspace_roots, disk, phase, last, concVars>>

NextFmt ==
    \/ \E uri \in URIs : \E options \in AllFormatOptions : Formatting(uri, options)
    \/ ApplyFormatting

SpecFmt == InitFmt /\ [][NextFmt]_vars

\* C20: formatting is idempotent: for every source that parses and every
\* tab-size / insert-spaces option, formatting the text that a formatting
\* request produced, with the same options, changes nothing, so the second
\* request answers with no edit.
C20_FormattingIdempotent ==
    (query.op = "formatting" /\ query.pass = 2) => query.result = None

-----------------------------------------------------------------------------
(* SpecScan: load_workspace_files over a directory tree *)

\* The files of the tree: in a root, in a directory below it, in the
\* directories the scan skips (at the root and deeper), with another
\* extension, and in a second root.
ScanFiles ==
    {File("/w", <<>>, "a", "AL"),
     File("/w", <<"src">>, "b", "Al"),
     File("/w", <<".git">>, "c", "al"),
     File("/w", <<"node_modules">>, "d", "al"),
     File("/w", <<"src", "target">>, "e", "al"),
     File("/w", <<>>, "f", "txt"),
     File("/v", <<>>, "g", "al")}

\* The directories that can be unreadable.
ScanDirectories == {Directory("/w", <<"src">>), Directory("/v", <<>>)}

IsDirectory == [file |-> "dir"]

ScanURIs == {from_file_path(p).some : p \in ScanFiles}

\* The disks: the file in the first root is absent, unreadable or readable,
\* the file below `src` unreadable or readable, each directory unreadable or
\* readable; every other file is readable.
ScanDisks ==
    {[p \in ScanFiles \cup ScanDirectories |->
         IF p = File("/w", <<>>, "a", "AL") THEN first
         ELSE IF p = File("/w", <<"src">>, "b", "Al") THEN below
         ELSE IF p = Directory("/w", <<"src">>) THEN src
         ELSE IF p = Directory("/v", <<>>) THEN other
         ELSE FileWith(<<"\n">>)] :
        first \in {NoFile, Unreadable, FileWith(<<"\n">>)},
        below \in {Unreadable, FileWith(<<"\n">>)},
        src \in {Unreadable, IsDirectory},
        other \in {Unreadable, IsDirectory}}

\* The root lists: workspace folders, and a relative root_path of initialize,
\* alone or with a folder added to it later.
ScanRoots ==
    {<<>>, <<"/w">>, <<"/w", "/v">>, <<"/v", "/w">>, <<"w">>, <<"w", "/v">>, <<"w", "/w">>}

\* The map before the scan: empty, or with one document the client opened,
\* for a file the scan reaches or for one it does not.
ScanOpened ==
    {{}, {from_file_path(File("/w", <<>>, "a", "AL")).some},
     {from_file_path(File("/w", <<".git">>, "c", "al")).some}}

\* One parse outcome for each file the scan can hand to the parser.
ScanParsed == {p \in ScanFiles : eq_ignore_ascii_case(p.ext, "al")
                                  /\ \A i \in 1..Len(p.dirs) : ~skipped_dir(p.dirs[i])}
ScanOutcomes ==
    {[p \in ScanFiles |-> IF p \in ScanParsed THEN oks[p] ELSE TRUE] :
        oks \in [ScanParsed -> BOOLEAN]}

InitScan ==
    /\ \E opened \in ScanOpened :
          documents = [u \in ScanURIs |->
                          IF u \in opened THEN DocumentState_new(<<"a">>, TRUE).some
                          ELSE NoDoc]
    /\ workspace_roots \in ScanRoots
    /\ disk \in ScanDisks
    /\ phase = "running"
    /\ last = [op |-> "none"]
    /\ IdleConc
    /\ IdleSym

\* load_workspace_files, as `initialized` and didChangeWorkspaceFolders call
\* it; the step records the URIs of the map before it and the parse outcomes.
Scan(oks) ==
    /\ Serving
    /\ documents' = load_workspace_files(documents, workspace_roots, disk, oks)
    /\ last' = [op |-> "scan", oks |-> oks,
                before |-> {u \in ScanURIs : contains_key(documents, u)}]
    /\ UNCHANGED <<workspace_roots, disk, phase>>
    /\ UNCHANGED <<concVars, symVars>>

NextScan == \E oks \in ScanOutcomes : Scan(oks)

SpecScan == InitScan /\ [][NextScan]_vars

\* What the claim says of a file: it lies under a workspace root, no
\* directory between the root and the file starts with a dot or is named
\* node_modules or target, its extension is `al` in some letter case, it and
\* every directory on the way can be read, and the parser gives a tree.
InAnyCase(ext) == ext \in {"al", "AL", "Al", "aL"}
Skipped(name) == name \in {".git", ".hidden", ".vscode", "node_modules", "target"}
UnderARoot(p) == \E i \in 1..Len(workspace_roots) : canonical(workspace_roots[i]) = p.root
UnderAnAbsoluteRoot(p) ==
    \E i \in 1..Len(workspace_roots) :
        is_absolute(workspace_roots[i]) /\ workspace_roots[i] = p.root
Readable(p) ==
    /\ disk[p].file = "present"
    /\ \A i \in 0..Len(p.dirs) :
          LET dir == Directory(p.root, SubSeq(p.dirs, 1, i))
          IN  dir \in DOMAIN disk => disk[dir] = IsDirectory
Loadable(f, oks) ==
    /\ \A i \in 1..Len(f.dirs) : ~Skipped(f.dirs[i])
    /\ InAnyCase(f.ext)
    /\ Readable(f)
    /\ oks[f]
ToBeLoaded(oks) ==
    {Url("file", f) : f \in {g \in ScanFiles : UnderARoot(g) /\ Loadable(g, oks)}}
ToBeLoadedByPath(oks) ==
    {Url("file", f) : f \in {g \in ScanFiles : UnderAnAbsoluteRoot(g) /\ Loadable(g, oks)}}

\* C21 as claimed: after load_workspace_files the URIs of the map are those
\* of before the call and the readable, parsable files with the extension
\* `al` in any letter case that lie under a workspace root behind no
\* directory whose name starts with a dot or is node_modules or target; what
\* cannot be read is skipped and the rest is loaded.
C21_ScanLoadsExactlyTheAlFiles ==
    last.op = "scan" =>
        {u \in ScanURIs : contains_key(documents, u)} = last.before \cup ToBeLoaded(last.oks)

\* C21 amended: after load_workspace_files the URIs of the map are those of
\* before the call and the readable, parsable files with the extension `al`
\* in any letter case that lie under a workspace root given by its absolute
\* path, behind no directory whose name starts with a dot or is node_modules
\* or target; what cannot be read is skipped and the rest is loaded, and no
\* file is loaded from a root given by a relative path.
C21_ScanLoadsTheAlFilesOfAbsoluteRoots ==
    last.op = "scan" =>
        {u \in ScanURIs : contains_key(documents, u)}
            = last.before \cup ToBeLoadedByPath(last.oks)

\* One scan went through a root given by a relative path, whose file it did
\* not load although it can be read and parsed, and through a root given by
\* its absolute path, whose file it loaded; it left out the file below
\* `.git`.
C21_Witness ==
    /\ last.op = "scan"
    /\ last.before = {}
    /\ workspace_roots = <<"w", "/v">>
    /\ disk[File("/w", <<>>, "a", "AL")] = FileWith(<<"\n">>)
    /\ last.oks[File("/w", <<>>, "a", "AL")]
    /\ ~contains_key(documents, Url("file", File("/w", <<>>, "a", "AL")))
    /\ contains_key(documents, Url("file", File("/v", <<>>, "g", "al")))
    /\ ~contains_key(documents, Url("file", File("/w", <<".git">>, "c", "al")))

-----------------------------------------------------------------------------
(* SpecBorrow: the entry guards of the handlers that walk the document map *)

\* The request handlers are synchronous functions: one runs from its first
\* line to its return before the next is polled.  A handler is followed here
\* through the operations it makes on the document map: `get` (a Ref guard on
\* the entry of the request's document), `drop` of that guard, and `iter` (a
\* walk over every entry of the map).

\* The paths through each handler, named by what the cursor is on.
HandlerPaths ==
    [ references       |-> {"interface_call", "codeunit_call", "not_procedure",
                            "interface_method", "implementation", "codeunit_procedure",
                            "other_procedure"},
      rename           |-> {"interface_call", "codeunit_call", "interface_method",
                            "implementation", "codeunit_procedure", "regular"},
      definition       |-> {"implementation", "implementation_unlisted", "other"},
      implementation   |-> {"interface_method", "not_interface_method"},
      type_definition  |-> {"same_document", "other_document"},
      workspace_symbol |-> {"query"} ]

HandlerKinds == DOMAIN HandlerPaths

\* handle_references.  With the cursor on a procedure, one walk for each of
\* interface_method_at, implementation_procedure_at and codeunit_procedure_at
\* that finds something: the first only in an interface, the other two only
\* outside one, the second only in an object with an implements list, and
\* none of them for a procedure named outside every procedure of an object.
references_map_use(path) ==
    CASE path = "interface_call"     -> <<"get", "drop", "iter">>
      [] path = "codeunit_call"      -> <<"get", "drop", "iter">>
      [] path = "not_procedure"      -> <<"get", "drop">>
      [] path = "interface_method"   -> <<"get", "drop", "iter">>
      [] path = "implementation"     -> <<"get", "drop", "iter", "iter">>
      [] path = "codeunit_procedure" -> <<"get", "drop", "iter">>
      [] path = "other_procedure"    -> <<"get", "drop">>

interface_method_map_use == <<"iter">>

implementation_procedure_map_use == <<"get", "drop", "iter">>

codeunit_procedure_map_use == <<"iter">>

rename_map_use(path) ==
    CASE path = "interface_call"     -> <<"get", "drop">> \o interface_method_map_use
      [] path = "codeunit_call"      -> <<"get", "drop">> \o codeunit_procedure_map_use
      [] path = "interface_method"   -> <<"get", "drop">> \o interface_method_map_use
      [] path = "implementation"     -> <<"get", "drop">> \o implementation_procedure_map_use
      [] path = "codeunit_procedure" -> <<"get", "drop">> \o codeunit_procedure_map_use
      [] path = "regular"            -> <<"get", "drop">>

\* handle_goto_definition.  On a procedure of an implementing object it
\* walks the map and returns what it has found; when no loaded interface
\* lists the method it takes the request's document again.
goto_definition_map_use(path) ==
    CASE path = "implementation"          -> <<"get", "drop", "iter">>
      [] path = "implementation_unlisted" -> <<"get", "drop", "iter", "get", "drop">>
      [] path = "other"                   -> <<"get", "drop">>

\* handle_goto_implementation.  It walks the map only with the cursor on a
\* method of an interface; anywhere else interface_method_at is None and the
\* handler returns, the guard dropped with it.
goto_implementation_map_use(path) ==
    CASE path = "interface_method"     -> <<"get", "drop", "iter">>
      [] path = "not_interface_method" -> <<"get", "drop">>

\* `doc` is not dropped before the loop over the other documents: the guard
\* lives to the end of the function.
goto_type_definition_map_use(path) ==
    CASE path = "same_document"  -> <<"get", "drop">>
      [] path = "other_document" -> <<"get", "iter", "drop">>

workspace_symbol_map_use(path) == <<"iter">>

\* The map operations of a handler on a path, in program order.
operations(kind, path) ==
    CASE kind = "references"       -> references_map_use(path)
      [] kind = "rename"           -> rename_map_use(path)
      [] kind = "definition"       -> goto_definition_map_use(path)
      [] kind = "implementation"   -> goto_implementation_map_use(path)
      [] kind = "type_definition"  -> goto_type_definition_map_use(path)
      [] kind = "workspace_symbol" -> workspace_symbol_map_use(path)

\* The operation handler t stands before; "return" past the last one.
operation(t) ==
    LET ops == operations(tasks[t].kind, tasks[t].path)
    IN  IF tasks[t].pc <= Len(ops) THEN ops[tasks[t].pc] ELSE "return"

\* The handler is the one running (the last one started) and stands before
\* `op`.
Stands(t, op) ==
    /\ thread = "running"
    /\ t = Len(tasks)
    /\ operation(t) = op

Advance(t) == [tasks EXCEPT ![t].pc = @ + 1, ![t].seen = {}]

InitBorrow ==
    /\ \E loaded \in SUBSET URIs :
          documents = [u \in URIs |-> IF u \in loaded
                                      THEN DocumentState_new(<<"a">>, TRUE).some ELSE NoDoc]
    /\ workspace_roots = <<>>
    /\ disk = [p \in Paths |-> NoFile]
    /\ phase = "running"
    /\ last = Unhandled
    /\ tasks = <<>>
    /\ locks \in Unlocked
    /\ thread = "idle"
    /\ IdleSym

\* A request arrives and its handler starts.
Start(kind, path, uri) ==
    /\ thread = "idle"
    /\ Len(tasks) < MaxTasks
    /\ tasks' = Append(tasks, [kind |-> kind, path |-> path, uri |-> uri, pc |-> 1, seen |-> {}])
    /\ thread' = "running"
    /\ UNCHANGED <<documents, locks>>
    /\ UNCHANGED <<workspace_roots, disk, phase, last, symVars>>

\* `state.documents.get(&uri)?`: a guard on the entry, or the handler returns.
Get(t) ==
    /\ Stands(t, "get")
    /\ IF contains_key(documents, tasks[t].uri)
       THEN /\ locks' = lock(tasks[t].uri, t)
            /\ tasks' = Advance(t)
       ELSE /\ tasks' = [tasks EXCEPT ![t].pc = Len(operations(tasks[t].kind, tasks[t].path)) + 1]
            /\ UNCHANGED locks
    /\ UNCHANGED <<documents, thread>>
    /\ UNCHANGED <<workspace_roots, disk, phase, last, symVars>>

\* `drop(doc)`, or the end of the guard's scope.
Drop(t) ==
    /\ Stands(t, "drop")
    /\ locks' = unlock(tasks[t].uri)
    /\ tasks' = Advance(t)
    /\ UNCHANGED <<documents, thread>>
    /\ UNCHANGED <<workspace_roots, disk, phase, last, symVars>>

\* One round of `for entry in state.documents.iter()`.
Visit(t, uri) ==
    /\ Stands(t, "iter")
    /\ contains_key(documents, uri)
    /\ uri \notin tasks[t].seen
    /\ tasks' = [tasks EXCEPT ![t].seen = @ \cup {uri}]
    /\ UNCHANGED <<documents, locks, thread>>
    /\ UNCHANGED <<workspace_roots, disk, phase, last, symVars>>

\* The loop has seen every entry.
EndIter(t) ==
    /\ Stands(t, "iter")
    /\ \A uri \in URIs : contains_key(documents, uri) => uri \in tasks[t].seen
    /\ tasks' = Advance(t)
    /\ UNCHANGED <<documents, locks, thread>>
    /\ UNCHANGED <<workspace_roots, disk, phase, last, symVars>>

\* A handler that has returned.
Returned == [kind |-> "returned", path |-> "", uri |-> NoUri, pc |-> 0, seen |-> {}]

\* The handler returns; the next request can be handled.
Return(t) ==
    /\ Stands(t, "return")
    /\ thread' = "idle"
    /\ tasks' = [tasks EXCEPT ![t] = Returned]
    /\ UNCHANGED <<documents, locks>>
    /\ UNCHANGED <<workspace_roots, disk, phase, last, symVars>>

NextBorrow ==
    \/ \E kind \in HandlerKinds : \E path \in HandlerPaths[kind] : \E uri \in URIs :
          Start(kind, path, uri)
    \/ \E t \in 1..MaxTasks : Get(t)
    \/ \E t \in 1..MaxTasks : Drop(t)
    \/ \E t \in 1..MaxTasks, uri \in URIs : Visit(t, uri)
    \/ \E t \in 1..MaxTasks : EndIter(t)
    \/ \E t \in 1..MaxTasks : Return(t)

SpecBorrow == InitBorrow /\ [][NextBorrow]_vars

\* The handler t is inside a walk over the whole document map.
Iterating(t) == Stands(t, "iter")

\* C23: a handler that walks the whole document map (references, rename,
\* go-to-definition, go-to-implementation, go-to-type-definition, workspace
\* symbol) holds no guard on any entry of the map, the request's document
\* included, while it walks.
C23_NoBorrowWhileIterating ==
    \A t \in 1..MaxTasks : Iterating(t) => \A s \in Shards : locks.holder[s] # t

-----------------------------------------------------------------------------
(* SpecType: extract_type_object_name on type texts *)

\* Longest type text, in elements: a kind keyword, a blank, and a quoted
\* one-letter name.
MaxTypeLen == MaxLen + 4

\* The object kinds a type can name.
TypeKinds == {"Record", "Codeunit", "Page", "Report", "Query", "Xmlport", "Enum", "Interface"}

\* The elements of the type texts: two of the kind keywords and the keyword
\* of a simple type (each keyword one element, standing for its letters), a
\* blank, a tab, a vertical tab, a double quote and a letter.
TypeAlphabet == {"Record", "Interface", "Integer", " ", "\t", VerticalTab, Quote, "B"}

RECURSIVE TypeTextsOf(_)
TypeTextsOf(n) ==
    IF n = 0 THEN {<<>>}
    ELSE LET shorter == TypeTextsOf(n - 1)
         IN  shorter \cup {Append(t, c) : t \in {s \in shorter : Len(s) = n - 1},
                                          c \in TypeAlphabet}

TypeTexts == TypeTextsOf(MaxTypeLen)

InitType ==
    /\ StoreInit
    /\ IdleConc
    /\ table = <<>>
    /\ \E type_info \in TypeTexts : query = [op |-> "none", type_info |-> type_info]

ExtractTypeObjectName ==
    /\ query.op = "none"
    /\ query' = [op |-> "extract_type_object_name", type_info |-> query.type_info,
                 result |-> extract_type_object_name(query.type_info)]
    /\ UNCHANGED <<table, storeVars, concVars>>

NextType == ExtractTypeObjectName

SpecType == InitType /\ [][NextType]_vars

\* What follows the kind keyword and its blank, without the quotes around it.
NameOf(type_info) ==
    LET text == trim(type_info)
    IN  trim_matches(trim(SubSeq(text, 3, Len(text))), Quote)

\* The text is `<Kind> <object-name>`: a kind keyword, at least one
\* character of white space, and a name, bare or in double quotes, that is
\* more than its quotes (white space around the text does not count).
KindAndName(type_info) ==
    LET text == trim(type_info)
    IN  /\ Len(text) >= 3
        /\ text[1] \in TypeKinds
        /\ is_whitespace(text[2])
        /\ NameOf(type_info) # <<>>

\* C25: extract_type_object_name returns an object name exactly when the
\* type text is `<Kind> <object-name>` with Kind one of Record, Codeunit,
\* Page, Report, Query, Xmlport, Enum, Interface, and then the name without
\* the quotes around it; for every other type text it returns nothing.
C25_ObjectNameIffKindAndName ==
    query.op = "extract_type_object_name" =>
        IF KindAndName(query.type_info)
        THEN query.result = Some(NameOf(query.type_info))
        ELSE query.result = None

-----------------------------------------------------------------------------
(* SpecRace: the workspace scan among the didOpen handlers *)

\* `initialized` and didChangeWorkspaceFolders run load_workspace_files
\* between their awaits; the scan itself is synchronous and has no await, so
\* the task that polls the handlers runs it in one piece.  handle_did_open
\* is suspended between building its document and inserting it.

RaceDisks == [Paths -> {NoFile} \cup {FileWith(t) : t \in DiskTexts}]

InitRace ==
    /\ documents = [u \in URIs |-> NoDoc]
    /\ workspace_roots = <<"/w">>
    /\ disk \in RaceDisks
    /\ phase = "running"
    /\ last = [op |-> "none"]
    /\ tasks = <<>>
    /\ locks \in Unlocked
    /\ thread = "idle"
    /\ IdleSym

\* The didOpen handlers suspended in publish_diagnostics(..).await.
Suspended == {t \in 1..Len(tasks) : tasks[t].kind = "didOpen" /\ tasks[t].pc = "publishing"}

\* `initialized` up to its first await: the log message that names the root.
PollInitialized(t) ==
    /\ thread = "idle"
    /\ t \in 1..Len(tasks)
    /\ tasks[t].kind = "initialized" /\ tasks[t].pc = "new"
    /\ tasks' = SetPc(t, "announcing")
    /\ UNCHANGED <<documents, locks, thread>>
    /\ UNCHANGED <<workspace_roots, disk, phase, last, symVars>>

\* `initialized` from there to its next await: load_workspace_files, then
\* the log message with the count.  `oks` says for which files the parser
\* gives a tree.
ScanInitialized(t, oks) ==
    /\ thread = "idle"
    /\ t \in 1..Len(tasks)
    /\ tasks[t].kind = "initialized" /\ tasks[t].pc = "announcing"
    /\ documents' = load_workspace_files(documents, workspace_roots, disk, oks)
    /\ last' = [op |-> "scan", suspended |-> Suspended, oks |-> oks]
    /\ tasks' = SetPc(t, "logging")
    /\ UNCHANGED <<locks, thread>>
    /\ UNCHANGED <<workspace_roots, disk, phase, symVars>>

\* The last two awaits of `initialized`: log_message and show_message.
ShowInitialized(t) ==
    /\ thread = "idle"
    /\ t \in 1..Len(tasks)
    /\ tasks[t].kind = "initialized" /\ tasks[t].pc \in {"logging", "showing"}
    /\ tasks' = SetPc(t, IF tasks[t].pc = "logging" THEN "showing" ELSE "done")
    /\ UNCHANGED <<documents, locks, thread>>
    /\ UNCHANGED <<workspace_roots, disk, phase, last, symVars>>

\* did_change_workspace_folders (with an event that changes no root) up to
\* its await: load_workspace_files, then the log message.
PollWorkspaceFolders(t, oks) ==
    /\ thread = "idle"
    /\ t \in 1..Len(tasks)
    /\ tasks[t].kind = "didChangeWorkspaceFolders" /\ tasks[t].pc = "new"
    /\ documents' = load_workspace_files(documents, workspace_roots, disk, oks)
    /\ last' = [op |-> "scan", suspended |-> Suspended, oks |-> oks]
    /\ tasks' = SetPc(t, "logging")
    /\ UNCHANGED <<locks, thread>>
    /\ UNCHANGED <<workspace_roots, disk, phase, symVars>>

ResumeWorkspaceFolders(t) ==
    /\ thread = "idle"
    /\ t \in 1..Len(tasks)
    /\ tasks[t].kind = "didChangeWorkspaceFolders" /\ tasks[t].pc = "logging"
    /\ tasks' = SetPc(t, "done")
    /\ UNCHANGED <<documents, locks, thread>>
    /\ UNCHANGED <<workspace_roots, disk, phase, last, symVars>>

NextRace ==
    \/ \E uri \in URIs, text \in StoreTexts, ok \in BOOLEAN :
          Receive("didOpen", uri, text, ok)
    \/ \E kind \in {"initialized", "didChangeWorkspaceFolders"} :
          Receive(kind, NoUri, <<>>, TRUE)
    \/ \E t \in 1..MaxTasks : PollDidOpen(t)
    \/ \E t \in 1..MaxTasks : ResumeDidOpen(t)
    \/ \E t \in 1..MaxTasks : PollInitialized(t)
    \/ \E t \in 1..MaxTasks, oks \in ParseOutcomes : ScanInitialized(t, oks)
    \/ \E t \in 1..MaxTasks : ShowInitialized(t)
    \/ \E t \in 1..MaxTasks, oks \in ParseOutcomes : PollWorkspaceFolders(t, oks)
    \/ \E t \in 1..MaxTasks : ResumeWorkspaceFolders(t)

SpecRace == InitRace /\ [][NextRace]_vars

\* The handlers in flight have all returned.
AllReturned == \A t \in 1..Len(tasks) : tasks[t].pc = "done"

Scans == {t \in 1..Len(tasks) : tasks[t].kind \in {"initialized", "didChangeWorkspaceFolders"}}
Opens(uri) == {t \in 1..Len(tasks) : tasks[t].kind = "didOpen" /\ tasks[t].uri = uri}

\* The didOpen handlers of a URI for whose text the parser gave a tree.
OpensParsed(uri) == {t \in Opens(uri) : tasks[t].ok}

\* What a scan leaves for a URI no didOpen has inserted: nothing, or, for
\* the `file` URL of a file, the document of the text on disk.
LeftByTheScan(uri) ==
    {NoDoc} \cup {DocumentState_new(read_to_string(disk, p).some, TRUE).some :
                     p \in {q \in Paths : /\ from_file_path(q) = Some(uri)
                                          /\ read_to_string(disk, q) # None}}

\* C30 as claimed: however a workspace scan and a didOpen of a URI
\* interleave, once both have returned the Document of the URI holds the
\* text the client supplied in didOpen, not the content the scan read from
\* disk.
C30_OpenedTextSurvivesTheScan ==
    (AllReturned /\ Scans # {})
    => \A uri \in URIs :
          Opens(uri) # {}
          => /\ contains_key(documents, uri)
             /\ \E t \in Opens(uri) : documents[uri].rope = tasks[t].text

\* C30 amended: however a workspace scan and a didOpen of a URI interleave,
\* once both have returned the Document of the URI holds the text the client
\* supplied in didOpen, not the content the scan read from disk, when the
\* parser gave a tree for that text; when it gave none the didOpen has
\* inserted nothing, and the map holds for the URI what the scan left.
C30_ParsedOpenedTextSurvivesTheScan ==
    (AllReturned /\ Scans # {})
    => \A uri \in URIs :
          Opens(uri) # {}
          => IF OpensParsed(uri) # {}
             THEN /\ contains_key(documents, uri)
                  /\ \E t \in OpensParsed(uri) : documents[uri].rope = tasks[t].text
             ELSE documents[uri] \in LeftByTheScan(uri)

\* A scan that ran while the didOpen of a file it reaches was suspended and
\* loaded the disk text, which differs from the client's; both have
\* returned.
C30_Witness ==
    /\ AllReturned
    /\ last.op = "scan"
    /\ \E t \in last.suspended :
          /\ from_file_path(tasks[t].uri.path) = Some(tasks[t].uri)
          /\ scanned(disk, "/w", tasks[t].uri.path)
          /\ last.oks[tasks[t].uri.path]
          /\ disk[tasks[t].uri.path] # FileWith(tasks[t].text)
          /\ documents[tasks[t].uri].rope = tasks[t].text

\* The parser gave no tree for the text of a didOpen, and the Document of
\* the URI holds the text the scan read from disk; both have returned.
C30_ScanTextAfterFailedOpen ==
    /\ AllReturned
    /\ Scans # {}
    /\ \E uri \in URIs :
          /\ Opens(uri) # {} /\ OpensParsed(uri) = {}
          /\ contains_key(documents, uri)
          /\ \A t \in Opens(uri) : documents[uri].rope # tasks[t].text

=============================================================================
